---- MODULE Spec2Model ----
(***************************************************************************)
(* Frame-accurate flicker scheduling of the RIFT stimulation scripts.      *)
(*                                                                         *)
(* Numbers.  Frequencies and refresh rates are integers (Hz).  A Python    *)
(* float that holds a ratio of two of them is kept as the exact rational   *)
(* <<numerator, denominator>>.  Colour channels are integers in units of   *)
(* 1/ColorUnit, sine values are integers in units of 1/SineUnit.           *)
(***************************************************************************)
EXTENDS Integers, Sequences, FiniteSets, TLC

\* ------------------------------------------------------------------------
\* Bounds of the model (not program constants)
\* ------------------------------------------------------------------------
\* refresh rates 1..MaxRefresh and target frequencies 0..MaxFrequency are built
MaxRefresh == 10
MaxFrequency == 6
\* frame numbers 0..MaxQueryFrame are asked of a resolver
MaxQueryFrame == 31
\* frame numbers 0..MaxReplayFrame are asked repeatedly of get_color
MaxReplayFrame == 11
\* a render loop presents at most MaxFrames frames, a long run MaxLongFrames
MaxFrames == 22
MaxLongFrames == 2004
MaxTimingFrames == 6
\* target frequencies 0..MaxLoopFrequency are configured in the render loops
MaxLoopFrequency == 5
\* frames that miss a vertical blank in a run with irregular timing
MaxLate == 2
\* the pre-computed colours are looked up on frames 0..MaxLookupOffset and on
\* the frames up to MaxLookupOffset past the end of the pre-computed list
MaxLookupOffset == 7
\* Frames of a run of the scripts compared with one another
MaxScriptFrames == 12

\* ------------------------------------------------------------------------
\* Program constants
\* ------------------------------------------------------------------------
\* Fraction(...).limit_denominator(1000)
max_denominator == 1000

\* Python's None, where an object (a record) is expected
None == [none |-> TRUE]
\* An exception raised by a constructor, in place of the object
Raised(exception) == [raised |-> exception]
\* A name the module level never bound: the run ended before the statement
\* that assigns it
Unbound == [unbound |-> TRUE]
\* An exception raised by a resolver, in place of the colour (a 3-tuple)
ZeroDivisionError == <<"ZeroDivisionError">>

\* COLOR_A / COLOR_B of 7a.py and 7.py (GREEN, MAGENTA), channels in 1/ColorUnit
ColorUnit == 10 * 100
COLOR_A == <<-1000, 1000, -1000>>
COLOR_B == <<1000, -1000, 1000>>

\* ------------------------------------------------------------------------
\* Arithmetic helpers
\* ------------------------------------------------------------------------
Abs(x) == IF x < 0 THEN -x ELSE x
Min(a, b) == IF a <= b THEN a ELSE b
Max(a, b) == IF a >= b THEN a ELSE b

RECURSIVE Gcd(_, _)
Gcd(a, b) == IF b = 0 THEN Abs(a) ELSE Gcd(b, a % b)

\* A rational in lowest terms with a positive denominator (fractions.Fraction)
Fraction(n, d) == LET g == Gcd(n, d) IN <<n \div g, d \div g>>

\* math.floor / math.ceil of the rational n/d, d > 0
Floor(n, d) == n \div d
Ceil(n, d) == -((-n) \div d)

\* The number of binary digits of n >= 0
RECURSIVE BitLength(_)
BitLength(n) == IF n = 0 THEN 0 ELSE 1 + BitLength(n \div 2)

\* The binary digits that one step of the long division by d brings down:
\* eight where 2^8 * d stays within the 32-bit integers, else one
DigitsAtOnce(d) == IF d <= 2 ^ 22 THEN 8 ELSE 1

\* The long division n / d carried to the 53 significant binary digits of a
\* double: rem / d is what is left after `bits` significant digits, the last
\* of them `last`.  The digits before the first significant one come one at
\* a time, the others DigitsAtOnce(d) at a time.  The result is the side on
\* which round-half-to-even leaves the double: -1 below the exact quotient,
\* 0 on it, 1 above it.
RECURSIVE QuotientRounding(_, _, _, _)
QuotientRounding(rem, d, bits, last) ==
    IF rem = 0 THEN 0
    ELSE IF bits = 53
         THEN (IF 2 * rem < d THEN -1
               ELSE IF 2 * rem > d THEN 1
               ELSE IF last = 1 THEN 1 ELSE -1)
    ELSE LET step == IF bits = 0 THEN 1 ELSE Min(DigitsAtOnce(d), 53 - bits)
             digits == ((2 ^ step) * rem) \div d
         IN  QuotientRounding(((2 ^ step) * rem) % d, d,
                              IF bits = 0 /\ digits = 0 THEN 0 ELSE bits + step,
                              digits % 2)

\* The float division n / d of two positive integers: the side of the exact
\* quotient on which the double lies
DivisionRounding(n, d) ==
    QuotientRounding(n % d, d, BitLength(n \div d), (n \div d) % 2)

\* str.upper()
LowerCase == "abcdefghijklmnopqrstuvwxyz"
UpperCase == "ABCDEFGHIJKLMNOPQRSTUVWXYZ"

RECURSIVE upper(_)
upper(str) ==
    IF Len(str) = 0 THEN str
    ELSE LET c == SubSeq(str, 1, 1)
             at == {i \in 1..Len(LowerCase) : SubSeq(LowerCase, i, i) = c}
         IN  (IF at = {} THEN c ELSE LET i == CHOOSE i \in at : TRUE IN SubSeq(UpperCase, i, i))
                 \o upper(SubSeq(str, 2, Len(str)))

\* sum(s), by halves so that long sequences stay within the evaluation stack
RECURSIVE SumRange(_, _, _)
SumRange(s, lo, hi) ==
    IF lo > hi THEN 0
    ELSE IF lo = hi THEN s[lo]
    ELSE LET mid == (lo + hi) \div 2
         IN  SumRange(s, lo, mid) + SumRange(s, mid + 1, hi)

SumSeq(s) == SumRange(s, 1, Len(s))

\* Fraction(x).limit_denominator(maxden) of a double x: the closest fraction
\* to x with denominator at most maxden, by the continued-fraction expansion.
\* The double is given by the fraction x it stands for and by `rounding`, the
\* side of x on which it lies (DivisionRounding).  The double is so close to
\* x that its expansion yields the same two candidates bound1 and bound2;
\* when x is at the same distance from both, the double is nearer the one on
\* its side of x, and if it is x itself bound2 wins the tie.
RECURSIVE Convergents(_, _, _, _, _, _, _, _, _)
Convergents(x, rounding, maxden, p0, q0, p1, q1, n, d) ==
    LET a == n \div d
        q2 == q0 + a * q1
    IN  IF q2 > maxden
        THEN LET k == (maxden - q0) \div q1
                 b1n == p0 + k * p1
                 b1d == q0 + k * q1
                 to_bound2 == Abs(p1 * x[2] - x[1] * q1) * b1d
                 to_bound1 == Abs(b1n * x[2] - x[1] * b1d) * q1
                 bound2_wins ==
                     IF to_bound2 # to_bound1 THEN to_bound2 < to_bound1
                     ELSE IF rounding = 0 THEN TRUE
                     ELSE IF rounding > 0 THEN p1 * x[2] > x[1] * q1
                     ELSE p1 * x[2] < x[1] * q1
             IN  IF bound2_wins THEN Fraction(p1, q1) ELSE Fraction(b1n, b1d)
        ELSE Convergents(x, rounding, maxden, p1, q1, p0 + a * p1, q2, d, n - a * d)

\* A faulty limit_denominator: the fraction is kept as it is, whatever its
\* denominator
limit_denominator_unlimited(x, rounding, maxden) == x

\* A fraction x with a denominator within maxden is the closest one to the
\* double that stands for it
limit_denominator(x, rounding, maxden) ==
    IF x[2] <= maxden THEN x
    ELSE Convergents(x, rounding, maxden, 0, 1, 1, 0, x[1], x[2])

\* x / y rounded to the nearest integer, y > 0
RoundDiv(x, y) == (2 * x + y) \div (2 * y)

\* ------------------------------------------------------------------------
\* np.sin(2 * np.pi * position) for a position in turns, a fraction in
\* [0, 1), rounded to units of 1/SineUnit.  The turn is cut into eighths on
\* the exact fraction; within an eighth the sine or cosine of the remaining
\* angle (at most pi/4) is summed from its power series in fixed point, with
\* FixUnit units to one.  The sum is within 2 units of 1/FixUnit of the sine,
\* that is 2/1000 of a unit of 1/SineUnit.
\* ------------------------------------------------------------------------
SineUnit == 10 * 10000
SineSteps == 360 \div 15
FixUnit == 10000 * 10000
FixHalf == 10000
\* 2 * pi in units of 1/FixUnit
TwoPi == 628318531

\* a * b of two fixed-point numbers (a, b >= 0), rounded, by halves of
\* FixHalf digits so that no product leaves the 32-bit integers
FixMul(a, b) ==
    LET ah == a \div FixHalf
        al == a % FixHalf
        bh == b \div FixHalf
        bl == b % FixHalf
    IN  ah * bh + RoundDiv(ah * bl + al * bh + RoundDiv(al * bl, FixHalf), FixHalf)

\* rem / den < 1 in fixed point by long division: k digits of base 100
RECURSIVE FixDigits(_, _, _)
FixDigits(rem, den, k) ==
    IF k = 0 THEN 0
    ELSE ((rem * 100) \div den) * (100 ^ (k - 1)) + FixDigits((rem * 100) % den, den, k - 1)

\* The remainder that the k digits of rem / den leave
RECURSIVE FixRemainder(_, _, _)
FixRemainder(rem, den, k) ==
    IF k = 0 THEN rem ELSE FixRemainder((rem * 100) % den, den, k - 1)

\* The angle of num / den of a turn (at most 1/8) in radians, in fixed
\* point: 2 pi times the digits of num / den, plus 2 pi times what the
\* digits leave
Radians(num, den) ==
    FixMul(TwoPi, FixDigits(num, den, 4))
        + RoundDiv(628 * FixRemainder(num, den, 4), 100 * den)

\* sin(theta) = theta (1 - t/6 (1 - t/20 (1 - t/42 (1 - t/72)))), t = theta^2
SinTerms(theta, t) ==
    LET u4 == FixUnit - RoundDiv(t, 72)
        u3 == FixUnit - RoundDiv(FixMul(t, u4), 42)
        u2 == FixUnit - RoundDiv(FixMul(t, u3), 20)
        u1 == FixUnit - RoundDiv(FixMul(t, u2), 6)
    IN  FixMul(theta, u1)

SinSeries(theta) == SinTerms(theta, FixMul(theta, theta))

\* cos(theta) = 1 - t/2 (1 - t/12 (1 - t/30 (1 - t/56 (1 - t/90)))), t = theta^2
CosTerms(t) ==
    LET v5 == FixUnit - RoundDiv(t, 90)
        v4 == FixUnit - RoundDiv(FixMul(t, v5), 56)
        v3 == FixUnit - RoundDiv(FixMul(t, v4), 30)
        v2 == FixUnit - RoundDiv(FixMul(t, v3), 12)
    IN  FixUnit - RoundDiv(FixMul(t, v2), 2)

CosSeries(theta) == CosTerms(FixMul(theta, theta))

\* The sine of the angle that lies theta past the start of an eighth of the
\* turn if the eighth is even, theta before its end if it is odd: the sine
\* of theta in the eighths 0, 3, 4, 7 and its cosine in 1, 2, 5, 6, negated
\* in the second half of the turn
SineOfOctant(octant, theta) ==
    (IF octant < 4 THEN 1 ELSE -1)
        * (IF octant \in {1, 2, 5, 6} THEN CosSeries(theta) ELSE SinSeries(theta))

\* x / y rounded to the nearest integer, halves away from zero, y > 0
RoundSigned(x, y) == IF x >= 0 THEN RoundDiv(x, y) ELSE -RoundDiv(-x, y)

SineOfTurn(position) ==
    LET den == position[2]
        eighths == 8 * (position[1] % den)
        octant == eighths \div den
        \* the angle past the start of the octant is within / (8 den) of a turn
        within == eighths % den
    IN  RoundSigned(SineOfOctant(octant,
                                 Radians(IF octant % 2 = 0 THEN within ELSE den - within,
                                         8 * den)),
                    FixUnit \div SineUnit)

\* SineOfTurn for the positions with a denominator of at most SineSteps,
\* summed once
SineOfSteps ==
    [den \in 1..SineSteps |-> [num \in 0..(den - 1) |-> SineOfTurn(<<num, den>>)]]

np_sin_turn(position) ==
    IF position[2] <= SineSteps
    THEN SineOfSteps[position[2]][position[1] % position[2]]
    ELSE SineOfTurn(position)

\* ------------------------------------------------------------------------
\* class AdaptiveFlickerPattern (7a.py, 7sine.py, 7sineopt.py)
\* ------------------------------------------------------------------------
\* A faulty _generate_pattern: `<=` for `<` in the distribution test
_generate_pattern_inclusive(ideal_frames_per_half, frames_low, frames_high) ==
    LET fractional_part == Fraction(ideal_frames_per_half[1] - frames_low * ideal_frames_per_half[2],
                                    ideal_frames_per_half[2])
        frac == limit_denominator(fractional_part,
                                  DivisionRounding(ideal_frames_per_half[1],
                                                   ideal_frames_per_half[2]),
                                  max_denominator)
        pattern_length == frac[2]
        num_high == frac[1]
    IN  [i \in 1..pattern_length |->
            IF ((i - 1) * num_high) % pattern_length <= num_high
            THEN frames_high ELSE frames_low]

\* A faulty _generate_pattern: the long half-cycles come first, in one block
_generate_pattern_front_loaded(ideal_frames_per_half, frames_low, frames_high) ==
    LET fractional_part == Fraction(ideal_frames_per_half[1] - frames_low * ideal_frames_per_half[2],
                                    ideal_frames_per_half[2])
        frac == limit_denominator(fractional_part,
                                  DivisionRounding(ideal_frames_per_half[1],
                                                   ideal_frames_per_half[2]),
                                  max_denominator)
        pattern_length == frac[2]
        num_high == frac[1]
    IN  [i \in 1..pattern_length |->
            IF (i - 1) < num_high THEN frames_high ELSE frames_low]

\* _generate_pattern: fractional_part is the double ideal_frames_per_half
\* (refresh_rate / flicker_frequency / 2; the halving and the subtraction of
\* frames_low are exact) less frames_low; entry i (0-based) is long iff
\* (i * num_high) % length < num_high
_generate_pattern(ideal_frames_per_half, frames_low, frames_high) ==
    LET fractional_part == Fraction(ideal_frames_per_half[1] - frames_low * ideal_frames_per_half[2],
                                    ideal_frames_per_half[2])
        frac == limit_denominator(fractional_part,
                                  DivisionRounding(ideal_frames_per_half[1],
                                                   ideal_frames_per_half[2]),
                                  max_denominator)
        pattern_length == frac[2]
        num_high == frac[1]
    IN  [i \in 1..pattern_length |->
            IF ((i - 1) * num_high) % pattern_length < num_high
            THEN frames_high ELSE frames_low]

\* A faulty __init__: the exactness test rounds instead of comparing floor
\* and ceiling, so a ratio within half a frame of an integer passes as exact
AdaptiveFlickerPattern_rounding(refresh_rate, flicker_frequency, mode) ==
    IF flicker_frequency = 0 THEN Raised("ZeroDivisionError")
    ELSE
    LET ideal_frames_per_half == Fraction(refresh_rate, 2 * flicker_frequency)
        frames_low == Floor(ideal_frames_per_half[1], ideal_frames_per_half[2])
        frames_high == Ceil(ideal_frames_per_half[1], ideal_frames_per_half[2])
        is_integer == (RoundDiv(ideal_frames_per_half[1], ideal_frames_per_half[2])
                          \in {frames_low, frames_high})
        pattern == IF is_integer THEN <<frames_low>>
                   ELSE _generate_pattern(ideal_frames_per_half, frames_low, frames_high)
        pattern_length == Len(pattern)
        total_frames == SumSeq(pattern) * 2
    IN  IF total_frames = 0 THEN Raised("ZeroDivisionError")
        ELSE
        LET achieved_frequency == Fraction(refresh_rate * pattern_length, total_frames)
        IN  [refresh_rate |-> refresh_rate,
             flicker_frequency |-> flicker_frequency,
             mode |-> upper(mode),
             ideal_frames_per_half |-> ideal_frames_per_half,
             frames_low |-> frames_low,
             frames_high |-> frames_high,
             is_integer |-> is_integer,
             pattern |-> pattern,
             pattern_length |-> pattern_length,
             frames_per_cycle |-> Fraction(refresh_rate, flicker_frequency),
             achieved_frequency |-> achieved_frequency,
             error |-> Fraction(achieved_frequency[1] - flicker_frequency * achieved_frequency[2],
                                achieved_frequency[2])]

\* __init__: the object as a record of its fields, or the exception raised.
\* achieved_frequency and error are the exact quotients; the code holds them
\* as doubles, which round the two divisions.
AdaptiveFlickerPattern(refresh_rate, flicker_frequency, mode) ==
    IF flicker_frequency = 0 THEN Raised("ZeroDivisionError")
    ELSE
    LET ideal_frames_per_half == Fraction(refresh_rate, 2 * flicker_frequency)
        frames_low == Floor(ideal_frames_per_half[1], ideal_frames_per_half[2])
        frames_high == Ceil(ideal_frames_per_half[1], ideal_frames_per_half[2])
        is_integer == (frames_low = frames_high)
        pattern == IF is_integer THEN <<frames_low>>
                   ELSE _generate_pattern(ideal_frames_per_half, frames_low, frames_high)
        pattern_length == Len(pattern)
        total_frames == SumSeq(pattern) * 2
    IN  IF total_frames = 0 THEN Raised("ZeroDivisionError")
        ELSE
        LET achieved_frequency == Fraction(refresh_rate * pattern_length, total_frames)
        IN  [refresh_rate |-> refresh_rate,
             flicker_frequency |-> flicker_frequency,
             mode |-> upper(mode),
             ideal_frames_per_half |-> ideal_frames_per_half,
             frames_low |-> frames_low,
             frames_high |-> frames_high,
             is_integer |-> is_integer,
             pattern |-> pattern,
             pattern_length |-> pattern_length,
             frames_per_cycle |-> Fraction(refresh_rate, flicker_frequency),
             achieved_frequency |-> achieved_frequency,
             error |-> Fraction(achieved_frequency[1] - flicker_frequency * achieved_frequency[2],
                                achieved_frequency[2])]

\* frames_this_half of half-cycle half_idx: self.pattern[half_idx % pattern_length]
FramesThisHalf(self, half_idx) == self.pattern[(half_idx % self.pattern_length) + 1]

\* The frames of the half-cycles lo..hi, summed by halves
RECURSIVE FramesOfHalves(_, _, _)
FramesOfHalves(self, lo, hi) ==
    IF lo > hi THEN 0
    ELSE IF lo = hi THEN FramesThisHalf(self, lo)
    ELSE LET mid == (lo + hi) \div 2
         IN  FramesOfHalves(self, lo, mid) + FramesOfHalves(self, mid + 1, hi)

\* The half-cycle at which the loop of get_color_square / get_color_simple
\* returns: the first half_idx in lo..hi with
\* pos_in_cycle < cumulative + frames_this_half, where cumulative has grown by
\* the entries before it, or hi + 1 when the loop runs out.  The pattern
\* entries are never negative, so the loop passes a block of half-cycles
\* exactly when pos_in_cycle is not below the cumulative count after it; the
\* search goes by halves so that long patterns stay within the evaluation stack.
RECURSIVE HalfCycleHolding(_, _, _, _, _)
HalfCycleHolding(self, pos_in_cycle, lo, hi, cumulative) ==
    IF lo > hi THEN lo
    ELSE IF lo = hi
         THEN (IF pos_in_cycle < cumulative + FramesThisHalf(self, lo) THEN lo ELSE lo + 1)
    ELSE LET mid == (lo + hi) \div 2
             upto_mid == cumulative + FramesOfHalves(self, lo, mid)
         IN  IF pos_in_cycle < upto_mid
             THEN HalfCycleHolding(self, pos_in_cycle, lo, mid, cumulative)
             ELSE HalfCycleHolding(self, pos_in_cycle, mid + 1, hi, upto_mid)

\* A faulty half-cycle search: the colour follows the parity of the pattern
\* entry instead of the parity of the half-cycle
FindHalfCycle_by_entry(self, pos_in_cycle, half_idx, cumulative, color_a, color_b) ==
    LET found == HalfCycleHolding(self, pos_in_cycle, half_idx,
                                  self.pattern_length * 2 - 1, cumulative)
        pattern_idx == found % self.pattern_length
    IN  IF found >= self.pattern_length * 2 THEN color_a
        ELSE IF pattern_idx % 2 = 0 THEN color_a ELSE color_b

\* The loop of get_color_square / get_color_simple from half-cycle half_idx
\* on: find the half-cycle that holds pos_in_cycle; even half-cycles show
\* color_a, odd ones color_b, and color_a is the fallback after the loop.
FindHalfCycle(self, pos_in_cycle, half_idx, cumulative, color_a, color_b) ==
    LET found == HalfCycleHolding(self, pos_in_cycle, half_idx,
                                  self.pattern_length * 2 - 1, cumulative)
    IN  IF found >= self.pattern_length * 2 THEN color_a
        ELSE IF found % 2 = 0 THEN color_a ELSE color_b

\* A faulty get_color_square: the cycle is one pass of the pattern, not two
get_color_square_one_pass(self, frame_num, color_a, color_b) ==
    LET pattern_cycle_frames == SumSeq(self.pattern)
    IN  FindHalfCycle(self, frame_num % pattern_cycle_frames, 0, 0, color_a, color_b)

get_color_square(self, frame_num, color_a, color_b) ==
    LET pattern_cycle_frames == SumSeq(self.pattern) * 2
    IN  FindHalfCycle(self, frame_num % pattern_cycle_frames, 0, 0, color_a, color_b)

\* A faulty get_color_simple: the cycle is one pass of the pattern, not two
get_color_simple_one_pass(self, frame_num, color_a, color_b) ==
    LET pattern_cycle_frames == SumSeq(self.pattern)
        pos_in_cycle == frame_num % pattern_cycle_frames
    IN  FindHalfCycle(self, pos_in_cycle, 0, 0, color_a, color_b)

get_color_simple(self, frame_num, color_a, color_b) ==
    LET pattern_cycle_frames == SumSeq(self.pattern) * 2
        pos_in_cycle == frame_num % pattern_cycle_frames
    IN  FindHalfCycle(self, pos_in_cycle, 0, 0, color_a, color_b)

\* 7a.py, _build_frame_boundaries: max_cycles passes over the pattern, entry
\* i (0-based) of frame_boundaries being (cumulative, color_idx) with
\* color_idx = half_idx % 2 for half_idx the position within the pattern
max_cycles == 10000

frame_boundaries(self, i) ==
    LET cycle == i \div self.pattern_length
        half_idx == i % self.pattern_length
    IN  [boundary |-> cycle * SumSeq(self.pattern) + SumRange(self.pattern, 1, half_idx),
         color_idx |-> half_idx % 2]

max_frame(self) == max_cycles * SumSeq(self.pattern)

\* The first entry in lo..hi whose successor's boundary is above frame_num,
\* or hi + 1.  The boundaries never decrease, so the search goes by halves.
RECURSIVE BoundaryAbove(_, _, _, _)
BoundaryAbove(self, frame_num, lo, hi) ==
    IF lo > hi THEN lo
    ELSE LET mid == (lo + hi) \div 2
         IN  IF frame_num < frame_boundaries(self, mid + 1).boundary
             THEN BoundaryAbove(self, frame_num, lo, mid - 1)
             ELSE BoundaryAbove(self, frame_num, mid + 1, hi)

\* The loop of get_color_fast from entry i on: the first entry that has a
\* successor and holds frame_num decides; the fallback is color_a.  The
\* entries before found have their successor's boundary at or below
\* frame_num; if found does not hold frame_num its boundary is above it, and
\* so is every later one.  The successor of the last entry of the pass that
\* holds frame_num is above frame_num, so the search ends there.  (Entries
\* before the pass that holds frame_num cannot match and are skipped at once.)
FindBoundary(self, frame_num, i, color_a, color_b) ==
    LET last == max_cycles * self.pattern_length - 2
        end_of_pass == (frame_num \div SumSeq(self.pattern) + 1) * self.pattern_length - 1
        found == BoundaryAbove(self, frame_num, i, Min(last, Max(i, end_of_pass)))
    IN  IF found > last THEN color_a
        ELSE IF frame_boundaries(self, found).boundary <= frame_num
             THEN (IF frame_boundaries(self, found).color_idx = 0 THEN color_a ELSE color_b)
             ELSE color_a

\* 7a.py: frame_num = frame_num % self.max_frame, then the search
get_color_fast(self, frame_num, color_a, color_b) ==
    LET n == frame_num % max_frame(self)
        first_of_pass == (n \div SumSeq(self.pattern)) * self.pattern_length
    IN  FindBoundary(self, n, first_of_pass, color_a, color_b)


\* cycle_position = (frame_num % frames_per_cycle) / frames_per_cycle
CyclePosition(self, frame_num) ==
    Fraction((frame_num * self.frames_per_cycle[2]) % self.frames_per_cycle[1],
             self.frames_per_cycle[1])

\* A faulty _get_sine_value: the sine is inverted (a half-cycle out of phase)
_get_sine_value_inverted(self, frame_num) == -np_sin_turn(CyclePosition(self, frame_num))


_get_sine_value(self, frame_num) == np_sin_turn(CyclePosition(self, frame_num))

\* A faulty _blend_colors: blend_factor = sine_value / 2, without the shift
_blend_colors_unshifted(color_a, color_b, sine_value) ==
    [i \in 1..3 |->
        RoundDiv(color_b[i] * (2 * SineUnit - sine_value) + color_a[i] * sine_value,
                 2 * SineUnit)]

\* blend_factor = (sine_value + 1) / 2;  color_b * (1 - bf) + color_a * bf
_blend_colors(color_a, color_b, sine_value) ==
    [i \in 1..3 |->
        RoundDiv(color_b[i] * (SineUnit - sine_value) + color_a[i] * (SineUnit + sine_value),
                 2 * SineUnit)]

get_color_sine(self, frame_num, color_a, color_b) ==
    _blend_colors(color_a, color_b, _get_sine_value(self, frame_num))

get_color(self, frame_num, color_a, color_b) ==
    IF self.mode = "SINE" THEN get_color_sine(self, frame_num, color_a, color_b)
    ELSE get_color_square(self, frame_num, color_a, color_b)

\* A method call on an object: the object as the call leaves it, and the
\* value returned
MethodReturn(self, value) == [self |-> self, value |-> value]

\* A faulty get_color_square: the search keeps a cursor in the object, the
\* pattern is left rotated by one entry (self.pattern.append(self.pattern.pop(0)))
get_color_square_call_cursor(self, frame_num, color_a, color_b) ==
    MethodReturn([self EXCEPT !.pattern = Tail(@) \o <<Head(@)>>],
                 get_color_square(self, frame_num, color_a, color_b))

\* pattern.get_color_square(...) as a call: pattern_cycle_frames,
\* pos_in_cycle, cumulative, half_idx, pattern_idx and frames_this_half are
\* locals, self.pattern and self.pattern_length are only read
get_color_square_call(self, frame_num, color_a, color_b) ==
    MethodReturn(self, get_color_square(self, frame_num, color_a, color_b))

\* pattern.get_color_sine(...) as a call: _get_sine_value reads
\* self.frames_per_cycle, _blend_colors reads no attribute
get_color_sine_call(self, frame_num, color_a, color_b) ==
    MethodReturn(self, get_color_sine(self, frame_num, color_a, color_b))

\* pattern.get_color(...) as a call: the object is handed to the method of
\* the mode and comes back as that method leaves it
get_color_call(self, frame_num, color_a, color_b) ==
    IF self.mode = "SINE" THEN get_color_sine_call(self, frame_num, color_a, color_b)
    ELSE get_color_square_call(self, frame_num, color_a, color_b)

\* ------------------------------------------------------------------------
\* The function-style resolvers of the other scripts
\* ------------------------------------------------------------------------
\* 7.py: FRAMES_PER_HALF_CYCLE = int(REFRESH_RATE / FLICKER_FREQUENCY / 2)
\* (flicker_frequency = 0 raises ZeroDivisionError: the callers guard it)
FRAMES_PER_HALF_CYCLE(refresh_rate, flicker_frequency) ==
    refresh_rate \div (2 * flicker_frequency)

\* 7.py
calculate_color_flicker_frame_based(frame_num, frames_per_half_cycle, color_a, color_b) ==
    LET frames_per_full_cycle == frames_per_half_cycle * 2
    IN  IF frames_per_full_cycle = 0 THEN ZeroDivisionError
        ELSE IF frame_num % frames_per_full_cycle < frames_per_half_cycle
             THEN color_a ELSE color_b

\* frame_num % frames_per_cycle < frames_per_cycle / 2 on doubles, where
\* frames_per_cycle is the float quotient refresh_rate / flicker_freq and the
\* modulo of two doubles is exact.  Off the boundaries of the half-cycles the
\* comparison is that of the exact quotient (the double is off by less than
\* one part in 2^52).  On a whole number of cycles a double above the quotient
\* has not completed the last cycle (the remainder is just short of a cycle),
\* and on a half-cycle boundary it has not reached the second half.
InFirstHalf(frame_num, flicker_freq, refresh_rate, at_boundary) ==
    LET frames_per_cycle == Fraction(refresh_rate, flicker_freq)
        frame_in_cycle == (frame_num * frames_per_cycle[2]) % frames_per_cycle[1]
        rounding == DivisionRounding(refresh_rate, flicker_freq)
    IN  IF frame_in_cycle = 0
        THEN frame_num = 0 \/ rounding <= 0
        ELSE IF 2 * frame_in_cycle = frames_per_cycle[1]
        THEN (rounding > 0 \/ (rounding = 0 /\ at_boundary))
        ELSE 2 * frame_in_cycle < frames_per_cycle[1]

\* A faulty calculate_color_flicker_frame: `<=` for `<`
calculate_color_flicker_frame_inclusive(frame_num, flicker_freq, refresh_rate, color_a, color_b) ==
    IF flicker_freq = 0 THEN ZeroDivisionError
    ELSE IF InFirstHalf(frame_num, flicker_freq, refresh_rate, TRUE)
         THEN color_a ELSE color_b

\* 4.py (t5.py): frames_per_cycle = refresh_rate / flicker_freq;
\* color_a if frame_num % frames_per_cycle < frames_per_cycle / 2 else color_b
calculate_color_flicker_frame(frame_num, flicker_freq, refresh_rate, color_a, color_b) ==
    IF flicker_freq = 0 THEN ZeroDivisionError
    ELSE IF InFirstHalf(frame_num, flicker_freq, refresh_rate, FALSE)
         THEN color_a ELSE color_b

\* rift2.py, coloured Gabors.py: integer division.  The call raises
\* ZeroDivisionError when flicker_freq is 0 or exceeds refresh_rate.
calculate_flicker_frame_raises(flicker_freq, refresh_rate) ==
    flicker_freq = 0 \/ refresh_rate \div flicker_freq = 0

\* A faulty calculate_flicker_frame: the second half of the cycle is shown
calculate_flicker_frame_second_half(frame_num, flicker_freq, refresh_rate) ==
    LET frames_per_cycle == refresh_rate \div flicker_freq
    IN  (frame_num % frames_per_cycle) >= (frames_per_cycle \div 2)


calculate_flicker_frame(frame_num, flicker_freq, refresh_rate) ==
    LET frames_per_cycle == refresh_rate \div flicker_freq
    IN  (frame_num % frames_per_cycle) < (frames_per_cycle \div 2)

\* ------------------------------------------------------------------------
\* Colour constants and colour processing of the scripts
\* ------------------------------------------------------------------------
\* None where a colour or a reported frequency is expected
NoColor == <<>>
NoReport == <<>>

\* COLOR_A, COLOR_B, LUMINANCE_MULTIPLIER, SATURATION_LEVEL and
\* BACKGROUND_COLOR[0] of each pattern script, in 1/ColorUnit
ScriptConstants(script) ==
    CASE script = "7" ->
           [COLOR_A |-> <<-1000, 1000, -1000>>, COLOR_B |-> <<1000, -1000, 1000>>,
            ENABLE_LUMINANCE_SCALING |-> TRUE, LUMINANCE_MULTIPLIER |-> 1000,
            ENABLE_SATURATION_CONTROL |-> TRUE, SATURATION_LEVEL |-> 1000,
            BACKGROUND_COLOR |-> 120]
      [] script = "7a" ->
           [COLOR_A |-> <<1000, 1000, 1000>>, COLOR_B |-> <<-1000, -1000, -1000>>,
            ENABLE_LUMINANCE_SCALING |-> TRUE, LUMINANCE_MULTIPLIER |-> 1000,
            ENABLE_SATURATION_CONTROL |-> TRUE, SATURATION_LEVEL |-> 1000,
            BACKGROUND_COLOR |-> 0]
      [] script = "7sine" ->
           [COLOR_A |-> <<-1000, -1000, -1000>>, COLOR_B |-> <<1000, 1000, 1000>>,
            ENABLE_LUMINANCE_SCALING |-> TRUE, LUMINANCE_MULTIPLIER |-> 700,
            ENABLE_SATURATION_CONTROL |-> TRUE, SATURATION_LEVEL |-> 700,
            BACKGROUND_COLOR |-> 0]
      [] script = "7sineopt" ->
           [COLOR_A |-> <<-1000, -1000, 1000>>, COLOR_B |-> <<1000, 1000, -1000>>,
            ENABLE_LUMINANCE_SCALING |-> TRUE, LUMINANCE_MULTIPLIER |-> 900,
            ENABLE_SATURATION_CONTROL |-> TRUE, SATURATION_LEVEL |-> 900,
            BACKGROUND_COLOR |-> 100]

\* [gray_value + (c - gray_value) * saturation for c in color]
desaturate_color(color_in, saturation, gray_value) ==
    [i \in 1..3 |->
        gray_value + RoundDiv((color_in[i] - gray_value) * saturation, ColorUnit)]

\* [c * LUMINANCE_MULTIPLIER for c in COLOR]
COLOR_LUM(k, color_in) ==
    IF k.ENABLE_LUMINANCE_SCALING
    THEN [i \in 1..3 |-> RoundDiv(color_in[i] * k.LUMINANCE_MULTIPLIER, ColorUnit)]
    ELSE color_in

COLOR_FINAL(k, color_in) ==
    IF k.ENABLE_SATURATION_CONTROL
    THEN desaturate_color(COLOR_LUM(k, color_in), k.SATURATION_LEVEL, k.BACKGROUND_COLOR)
    ELSE COLOR_LUM(k, color_in)

COLOR_A_FINAL(script) == COLOR_FINAL(ScriptConstants(script), ScriptConstants(script).COLOR_A)
COLOR_B_FINAL(script) == COLOR_FINAL(ScriptConstants(script), ScriptConstants(script).COLOR_B)

\* rift2.py
COLOR1 == <<1000, 0, -1000>>
COLOR2 == <<-1000, 0, 1000>>
\* coloured Gabors.py
RED_COLOR == <<1000, -1000, -1000>>
CYAN_COLOR == <<-1000, 1000, 1000>>
GREEN_COLOR == <<-1000, 1000, -1000>>
MAGENTA_COLOR == <<1000, -1000, 1000>>

\* ------------------------------------------------------------------------
\* One stimulus drawn in one iteration of a render loop
\* ------------------------------------------------------------------------
\* 7sineopt.py: precomputed_colors has max_precompute_frames entries, entry f
\* being pattern.get_color(f, COLOR_A_FINAL, COLOR_B_FINAL)
max_precompute_frames == 10000
poll_interval == 10

precomputed_colors(self, f) ==
    get_color(self, f, COLOR_A_FINAL("7sineopt"), COLOR_B_FINAL("7sineopt"))

\* 9.py: opacity = 0.5 + 0.5 * np.sin(2 * np.pi * flicker_freq * t), with t a
\* whole number of frame periods, in units of 1 / (2 * SineUnit)
opacity(flicker_freq, refresh_rate, t) ==
    <<SineUnit + np_sin_turn(Fraction((flicker_freq * t) % refresh_rate, refresh_rate))>>

\* d.py: the loop presents n_frames = int(duration * frame_rate) frames;
\* luminance_values[name][i] = 0.58 + 0.3 * np.sin(2 * np.pi * freq * time[i])
\* with time[i] = i / frame_rate, in 1/ColorUnit
duration == 10
n_frames(frame_rate) == duration * frame_rate
row_frequencies == <<56, 60, 64>>
\* squares 1..6: topLeft, topRight, middleLeft, middleRight, bottomLeft, bottomRight
square_frequencies == [name \in 1..6 |-> row_frequencies[(name + 1) \div 2]]

luminance_values(freq, frame_rate, i) ==
    <<580 + RoundDiv(300 * np_sin_turn(Fraction((freq * i) % frame_rate, frame_rate)),
                     SineUnit)>>

\* TRIAL_DURATION = None in every script that has it
TRIAL_DURATION == None

\* What drawing a stimulus leaves behind: the colour set on it, the switch
\* log and last colour of the verification, and the exception raised if any
Drawn(current_color, last, switches, raised) ==
    [color |-> current_color, last_color |-> last,
     flicker_switches |-> switches, exception |-> raised]

\* 7.py / 7a.py:  if last_color is not None and current_color != last_color:
\*                    flicker_switches.append(current_time)
\*                last_color = current_color
TrackSwitch(current_color, last, switches, time) ==
    Drawn(current_color, current_color,
          IF last # NoColor /\ current_color # last THEN Append(switches, time) ELSE switches,
          "")

\* rift2.py / coloured Gabors.py:  if current_color != last_color:
\*                                     color_switches.append(current_time)
\*                                     last_color = current_color
TrackChange(current_color, last, switches, time) ==
    IF current_color # last
    THEN Drawn(current_color, current_color, Append(switches, time), "")
    ELSE Drawn(current_color, last, switches, "")

\* The branch of the drawing loop taken for the stimulus at `hour`
DrawStimulus(cfg, patterns, fph, hour, n, time, shown, last, switches) ==
    LET script == cfg.script
        F == cfg.FLICKER_FREQUENCY[hour]
        R == cfg.REFRESH_RATE
    IN  IF script = "9" THEN Drawn(opacity(F, R, time), last, switches, "")
        ELSE IF script = "d" THEN Drawn(luminance_values(F, R, n), last, switches, "")
        ELSE IF script = "rift2"
        THEN IF calculate_flicker_frame_raises(F, R)
             THEN Drawn(shown, last, switches, "ZeroDivisionError")
             ELSE TrackChange(IF calculate_flicker_frame(n, F, R) THEN COLOR1 ELSE COLOR2,
                              last, switches, time)
        ELSE IF script = "rift_code"
        THEN IF calculate_flicker_frame_raises(F, R)
             THEN Drawn(shown, last, switches, "ZeroDivisionError")
             ELSE Drawn(IF calculate_flicker_frame(n, F, R) THEN COLOR1 ELSE COLOR2,
                        last, switches, "")
        ELSE IF ~cfg.ENABLE_FLICKER[hour] THEN Drawn(shown, last, switches, "")
        ELSE IF script = "t5"
        THEN IF F = 0 THEN Drawn(shown, last, switches, "ZeroDivisionError")
             ELSE Drawn(calculate_color_flicker_frame(n, F, R, COLOR_A, COLOR_B),
                        last, switches, "")
        ELSE IF script = "coloured"
        THEN IF calculate_flicker_frame_raises(F, R)
             THEN Drawn(shown, last, switches, "ZeroDivisionError")
             ELSE TrackChange(IF calculate_flicker_frame(n, F, R)
                              THEN (IF hour = 9 THEN GREEN_COLOR ELSE RED_COLOR)
                              ELSE (IF hour = 9 THEN MAGENTA_COLOR ELSE CYAN_COLOR),
                              last, switches, time)
        ELSE IF script = "7"
        THEN TrackSwitch(calculate_color_flicker_frame_based(n, fph[hour],
                             COLOR_A_FINAL(script), COLOR_B_FINAL(script)),
                         last, switches, time)
        ELSE IF script = "7a"
        THEN TrackSwitch(get_color_simple(patterns[hour], n,
                             COLOR_A_FINAL(script), COLOR_B_FINAL(script)),
                         last, switches, time)
        ELSE IF script = "7sine"
        THEN Drawn(get_color(patterns[hour], n, COLOR_A_FINAL(script), COLOR_B_FINAL(script)),
                   last, switches, "")
        ELSE Drawn(precomputed_colors(patterns[hour], n % max_precompute_frames),
                   last, switches, "")

\* for hour in clock_positions: the stimuli in the order the scripts draw them;
\* an exception ends the iteration
RECURSIVE DrawAll(_, _, _, _, _, _, _)
DrawAll(cfg, patterns, fph, hours, n, time, st) ==
    IF hours = <<>> \/ st.exception # "" THEN st
    ELSE LET hour == Head(hours)
             d == DrawStimulus(cfg, patterns, fph, hour, n, time, st.color[hour],
                               st.last_color[hour], st.flicker_switches[hour])
         IN  DrawAll(cfg, patterns, fph, Tail(hours), n, time,
                     [color |-> [st.color EXCEPT ![hour] = d.color],
                      last_color |-> [st.last_color EXCEPT ![hour] = d.last_color],
                      flicker_switches |->
                          [st.flicker_switches EXCEPT ![hour] = d.flicker_switches],
                      exception |-> d.exception])

\* ------------------------------------------------------------------------
\* Timing verification after the loop
\* ------------------------------------------------------------------------
\* np.diff
np_diff(x) == [i \in 1..(Len(x) - 1) |-> x[i + 1] - x[i]]

\* mean_switch_interval = np.mean(np.diff(switches)), in frame periods
mean_switch_interval(switches) ==
    Fraction(SumSeq(np_diff(switches)), Len(switches) - 1)

\* 7.py, 7a.py, t5.py:  actual_flicker_frequency = 1.0 / (2 * mean_switch_interval)
\* rift2.py, coloured Gabors.py:  actual_flicker_freq = 1.0 / mean_switch_interval
\* (timestamps are in frame periods of 1 / refresh_rate seconds; result in Hz)
ReportedFrequency(script, refresh_rate, enabled, switches) ==
    LET mean == mean_switch_interval(switches)
    IN  IF script \in {"7", "7a", "t5"}
        THEN IF enabled /\ Len(switches) > 1
             THEN Fraction(refresh_rate * mean[2], 2 * mean[1]) ELSE NoReport
        ELSE IF script \in {"rift2", "coloured"}
        THEN IF Len(switches) > 1
             THEN Fraction(refresh_rate * mean[2], mean[1]) ELSE NoReport
        ELSE NoReport

\* ========================================================================
\* State
\* ========================================================================
VARIABLES
    arg,            \* the arguments AdaptiveFlickerPattern(...) is called with
    obj,            \* the AdaptiveFlickerPattern object, None before __init__
    call,           \* the last resolver call: function, frame number, result
    first_query,    \* the first get_color call made on obj (frame number, result)
    asked_before,   \* the frame number asked of get_color before the last one
    config,         \* the module-level configuration constants of the running script
    pattern,        \* pattern_9 / pattern_3: stimulus -> AdaptiveFlickerPattern or None
    frames_per_half,\* FRAMES_PER_HALF_CYCLE_9 / _3 of 7.py: stimulus -> integer
    pc,             \* where the script is
    exception,      \* the exception that ended the script, "" if none
    frame_num,      \* the frame counter (frame_count in 9.py)
    trial_ended,
    key_buffer,     \* TRUE while a stop key press waits in the event buffer
    flips,          \* win.flip() calls made so far
    clock,          \* trial_clock, in frame periods (1 / REFRESH_RATE s)
    clock_alt,      \* the clock of a second run of the same configuration
    current_time,   \* the timestamp read at the loop head
    current_time_alt,
    color,          \* stimulus -> the state (colour, opacity) set on it
    color_alt,      \* the same in the second run
    last_color,     \* last_color_9 / last_color_3: stimulus -> colour or None
    flicker_switches, \* flicker_switches_9 / _3: stimulus -> timestamps
    actual_flicker_frequency, \* stimulus -> the frequency the verification reports
    pressed_at,     \* flips made when the stop key was pressed, -1 before
    late_budget,    \* late frames the display may still produce
    frame_cap       \* frames the run is followed for

resolverVars == <<arg, obj, call, first_query, asked_before>>
loopVars == <<config, pattern, frames_per_half, pc, exception, frame_num, trial_ended, key_buffer,
              flips, clock, clock_alt, current_time, current_time_alt, color, color_alt,
              last_color, flicker_switches, actual_flicker_frequency, pressed_at,
              late_budget, frame_cap>>
vars == <<arg, obj, call, first_query, asked_before, config, pattern, frames_per_half,
          pc, exception, frame_num,
          trial_ended, key_buffer, flips, clock, clock_alt, current_time,
          current_time_alt, color, color_alt, last_color, flicker_switches,
          actual_flicker_frequency, pressed_at, late_budget, frame_cap>>

\* ========================================================================
\* The resolvers called directly, on any frame number in any order
\* ========================================================================
\* Refresh rate / target frequency pairs named by the scripts and the
\* documentation: 480/60, 480/64, 480/72 (7a.py docstring), 120/60, 240/60,
\* and 2003/1001, whose half-cycle 2003/2002 has a denominator above 1000.
ScenarioRates == {<<480, 60>>, <<480, 64>>, <<480, 72>>, <<120, 60>>, <<240, 60>>,
                  <<2003, 1001>>}

ResolverRates == ((1..MaxRefresh) \X (0..MaxFrequency)) \cup ScenarioRates

\* SINE mode is built here where the cycle is a whole number of frames or
\* every cycle position is a multiple of 15 degrees; SineArgs has the other
\* rates
SineRates(rf) ==
    /\ rf[2] > 0
    /\ \/ rf[1] % rf[2] = 0
       \/ SineSteps % (rf[1] \div Gcd(rf[1], rf[2])) = 0

ResolverArgs ==
    { [refresh_rate |-> rf[1], flicker_frequency |-> rf[2], mode |-> "SQUARE"] :
        rf \in ResolverRates }
    \cup
    { [refresh_rate |-> rf[1], flicker_frequency |-> rf[2], mode |-> "SINE"] :
        rf \in {x \in ResolverRates : SineRates(x)} }

IsObject(o) == "pattern" \in DOMAIN o

Called(fn, n, result) == [fn |-> fn, frame_num |-> n, result |-> result]
NoCall == Called("", -1, <<>>)

\* No script runs while the resolvers are called directly
LoopIdle ==
    /\ config = None /\ pattern = None /\ frames_per_half = None
    /\ pc = "idle" /\ exception = "" /\ frame_num = 0 /\ trial_ended = FALSE /\ key_buffer = FALSE
    /\ flips = 0 /\ clock = 0 /\ clock_alt = 0 /\ current_time = 0
    /\ current_time_alt = 0 /\ color = None /\ color_alt = None /\ last_color = None
    /\ flicker_switches = None /\ actual_flicker_frequency = None
    /\ pressed_at = -1 /\ late_budget = 0 /\ frame_cap = 0

InitArgs(args) ==
    /\ arg \in args
    /\ obj = None
    /\ call = NoCall
    /\ first_query = NoCall
    /\ asked_before = -1
    /\ LoopIdle

InitResolver == InitArgs(ResolverArgs)

\* pattern = AdaptiveFlickerPattern(REFRESH_RATE, FLICKER_FREQUENCY, FLICKER_MODE)
Construct ==
    /\ obj = None
    /\ obj' = AdaptiveFlickerPattern(arg.refresh_rate, arg.flicker_frequency, arg.mode)
    /\ UNCHANGED <<arg, call, first_query, asked_before>>
    /\ UNCHANGED loopVars

\* pattern.get_color(frame_num, COLOR_A, COLOR_B)
CallGetColor(n) ==
    /\ IsObject(obj)
    /\ \E returned \in {get_color_call(obj, n, COLOR_A, COLOR_B)} :
           /\ obj' = returned.self
           /\ call' = Called("get_color", n, returned.value)
           /\ first_query' = IF first_query = NoCall THEN call' ELSE first_query
    /\ asked_before' = call.frame_num
    /\ UNCHANGED arg
    /\ UNCHANGED loopVars

\* pattern.get_color_square(frame_num, COLOR_A, COLOR_B)
CallGetColorSquare(n) ==
    /\ IsObject(obj)
    /\ call' = Called("get_color_square", n,
                      get_color_square(obj, n, COLOR_A, COLOR_B))
    /\ UNCHANGED <<arg, obj, first_query, asked_before>>
    /\ UNCHANGED loopVars

\* pattern.get_color_simple(frame_num, COLOR_A, COLOR_B)
CallGetColorSimple(n) ==
    /\ IsObject(obj)
    /\ call' = Called("get_color_simple", n,
                      get_color_simple(obj, n, COLOR_A, COLOR_B))
    /\ UNCHANGED <<arg, obj, first_query, asked_before>>
    /\ UNCHANGED loopVars

\* pattern.get_color_fast(frame_num, COLOR_A, COLOR_B)  (7a.py)
CallGetColorFast(n) ==
    /\ IsObject(obj)
    /\ call' = Called("get_color_fast", n, get_color_fast(obj, n, COLOR_A, COLOR_B))
    /\ UNCHANGED <<arg, obj, first_query, asked_before>>
    /\ UNCHANGED loopVars

\* 7sineopt.py: precomputed_colors_9[frame_num % len(precomputed_colors_9)]
CallPrecomputedColors(n) ==
    /\ IsObject(obj)
    /\ call' = Called("precomputed_colors", n,
                      precomputed_colors(obj, n % max_precompute_frames))
    /\ UNCHANGED <<arg, obj, first_query, asked_before>>
    /\ UNCHANGED loopVars

\* calculate_color_flicker_frame_based(n, FRAMES_PER_HALF_CYCLE, ...)
CallFrameBased(n) ==
    /\ arg.flicker_frequency > 0
    /\ call' = Called("calculate_color_flicker_frame_based", n,
                      calculate_color_flicker_frame_based(n,
                          FRAMES_PER_HALF_CYCLE(arg.refresh_rate, arg.flicker_frequency),
                          COLOR_A, COLOR_B))
    /\ UNCHANGED <<arg, obj, first_query, asked_before>>
    /\ UNCHANGED loopVars

\* calculate_color_flicker_frame(n, FLICKER_FREQUENCY, REFRESH_RATE, ...)
CallFlickerFrame(n) ==
    /\ arg.flicker_frequency > 0
    /\ call' = Called("calculate_color_flicker_frame", n,
                      calculate_color_flicker_frame(n, arg.flicker_frequency,
                          arg.refresh_rate, COLOR_A, COLOR_B))
    /\ UNCHANGED <<arg, obj, first_query, asked_before>>
    /\ UNCHANGED loopVars

\* calculate_flicker_frame(n, FLICKER_FREQUENCY, REFRESH_RATE)  (rift_code.py,
\* t4.py); the call raises ZeroDivisionError for the other frequencies
CallCalculateFlickerFrame(n) ==
    /\ ~calculate_flicker_frame_raises(arg.flicker_frequency, arg.refresh_rate)
    /\ call' = Called("calculate_flicker_frame", n,
                      calculate_flicker_frame(n, arg.flicker_frequency,
                                              arg.refresh_rate))
    /\ UNCHANGED <<arg, obj, first_query, asked_before>>
    /\ UNCHANGED loopVars

\* Frame numbers at the start of a run and where the lookup index wraps
LookupFrames ==
    (0..MaxLookupOffset)
    \cup { max_precompute_frames + k : k \in 0..MaxLookupOffset }

NextResolver ==
    \/ Construct
    \/ \E n \in 0..MaxQueryFrame : CallGetColorSquare(n)
    \/ \E n \in 0..MaxQueryFrame : CallGetColorSimple(n)
    \/ \E n \in 0..MaxQueryFrame : CallGetColorFast(n)
    \/ \E n \in LookupFrames : CallPrecomputedColors(n)
    \/ \E n \in 0..MaxQueryFrame : CallFrameBased(n)
    \/ \E n \in 0..MaxQueryFrame : CallFlickerFrame(n)

SpecResolver == InitResolver /\ [][NextResolver]_vars

\* The duplicated square-wave resolvers side by side: the functions of 4.py
\* (t5.py), t4.py (rift_code.py) and 7.py, get_color_simple of 7a.py and
\* get_color_square of 7sine.py
InitVariants ==
    /\ InitResolver
    /\ arg.mode = "SQUARE"

NextVariants ==
    \/ Construct
    \/ \E n \in 0..MaxQueryFrame : CallGetColorSquare(n)
    \/ \E n \in 0..MaxQueryFrame : CallGetColorSimple(n)
    \/ \E n \in 0..MaxQueryFrame : CallFrameBased(n)
    \/ \E n \in 0..MaxQueryFrame : CallFlickerFrame(n)
    \/ \E n \in 0..MaxQueryFrame : CallCalculateFlickerFrame(n)

SpecVariants == InitVariants /\ [][NextVariants]_vars


\* get_color replayed: any frame numbers, in any order, with repetitions
NextReplay ==
    \/ Construct
    \/ \E n \in 0..MaxReplayFrame : CallGetColor(n)

SpecReplay == InitResolver /\ [][NextReplay]_vars

\* get_color replayed on the SINE patterns only: every rate pair with a
\* frequency, on and off the 15 degree grid, 7sineopt.py as it is shipped
\* (480 Hz, 1 Hz), and FLICKER_MODE spelled in lower case
SineArgs ==
    { [refresh_rate |-> rf[1], flicker_frequency |-> rf[2], mode |-> "SINE"] :
        rf \in {x \in ResolverRates \cup {<<480, 1>>} : x[2] > 0} }
    \cup
    { [refresh_rate |-> rf[1], flicker_frequency |-> rf[2], mode |-> "sine"] :
        rf \in {<<480, 1>>, <<8, 1>>, <<5, 1>>} }

InitSine == InitArgs(SineArgs)

SpecSine == InitSine /\ [][NextReplay]_vars

\* ========================================================================
\* The scripts run: setup, render loop, timing verification
\* ========================================================================
PatternScripts == {"7a", "7sine", "7sineopt"}
FrameScripts == {"7", "7a", "7sine", "7sineopt", "rift2", "coloured"}
EveryFramePollers == {"7", "7a", "7sine"}

\* The flickering stimuli of a script by clock position (the circle of 9.py
\* sits at the centre: 0; the squares of d.py are numbered 1..6), and the
\* order in which the loop draws them
Stimuli(script) ==
    IF script \in {"rift2", "rift_code"} THEN {3} ELSE IF script = "9" THEN {0}
    ELSE IF script = "d" THEN 1..6 ELSE {3, 9}
DrawOrder(script) ==
    IF script \in {"rift2", "rift_code"} THEN <<3>> ELSE IF script = "9" THEN <<0>>
    ELSE IF script = "d" THEN <<1, 2, 3, 4, 5, 6>> ELSE <<3, 9>>

Configuration(script, refresh_rate, frequency, enable, mode) ==
    [script |-> script, REFRESH_RATE |-> refresh_rate,
     FLICKER_FREQUENCY |-> frequency, ENABLE_FLICKER |-> enable,
     FLICKER_MODE |-> mode]

\* Two-stimulus scripts: NINE_OCLOCK_ / THREE_OCLOCK_FLICKER_FREQUENCY vary
\* and the flicker of either stimulus can be switched off
\* (ENABLE_NINE_OCLOCK_FLICKER, ENABLE_THREE_OCLOCK_FLICKER)
TwoStimulusConfigs(scripts, rates, frequencies9, frequencies3, modes) ==
    { Configuration(s, r, (9 :> f9) @@ (3 :> f3), (9 :> e9) @@ (3 :> e3), m) :
        s \in scripts, r \in rates, f9 \in frequencies9, f3 \in frequencies3,
        e9 \in BOOLEAN, e3 \in BOOLEAN, m \in modes }

OneStimulusConfigs(script, rates, frequencies) ==
    { Configuration(script, r, [h \in Stimuli(script) |-> f],
                    [h \in Stimuli(script) |-> TRUE], "SQUARE") :
        r \in rates, f \in frequencies }

\* The SINE configurations run have every enabled frequency among SineRates
SineOk(cfg) ==
    cfg.FLICKER_MODE = "SINE" =>
        \A h \in Stimuli(cfg.script) :
            cfg.ENABLE_FLICKER[h] /\ cfg.FLICKER_FREQUENCY[h] > 0
                => SineRates(<<cfg.REFRESH_RATE, cfg.FLICKER_FREQUENCY[h]>>)

LoopRates == {4, 8}

LoopConfigs ==
    TwoStimulusConfigs({"7", "7a", "coloured"}, LoopRates, 0..MaxLoopFrequency, {2}, {"SQUARE"})
    \cup { c \in TwoStimulusConfigs({"7sine", "7sineopt"}, LoopRates, 0..MaxLoopFrequency, {2},
                                    {"SQUARE", "SINE"}) : SineOk(c) }
    \cup OneStimulusConfigs("rift2", LoopRates, 0..MaxLoopFrequency)
    \cup OneStimulusConfigs("9", LoopRates, 0..MaxLoopFrequency)

\* Runs whose frames may be late: one script of each kind
TimingConfigs ==
    TwoStimulusConfigs({"7", "7a", "7sine", "7sineopt", "coloured"}, {8}, {3}, {2}, {"SQUARE"})
    \cup { c \in TwoStimulusConfigs({"7sine"}, {8}, {1}, {2}, {"SINE"}) : SineOk(c) }
    \cup OneStimulusConfigs("rift2", {8}, {2})
    \cup OneStimulusConfigs("9", {60}, {5, 15})

\* Long runs of the adaptive pattern of 7a.py (3 o'clock stimulus)
LongRates == {<<8, 3>>, <<101, 50>>, <<2003, 1001>>}
\* d.py at a measured frame rate of 24 Hz
LongFrameRates == {24}
LongConfigs ==
    { Configuration("7a", rf[1], (9 :> rf[2]) @@ (3 :> rf[2]),
                    (9 :> FALSE) @@ (3 :> TRUE), "SQUARE") : rf \in LongRates }
    \cup { Configuration("d", r, square_frequencies, [name \in 1..6 |-> TRUE], "SINE") :
             r \in LongFrameRates }

\* Frequencies of a stimulus at 8 Hz: half-cycles of 2 frames and of 1
\* frame, no frequency, and a frequency above half the refresh rate
ScriptFrequencies == {0, 2, 4, 5}

\* Every kind of script at 8 Hz, each stimulus at each of ScriptFrequencies
\* with its flicker on or off; 7sine.py also in SINE mode (sine cycles of 8,
\* 4, 2 and 8/5 frames, every cycle position a multiple of 45 degrees) and
\* with FLICKER_MODE spelled in lower case; 9.py as it is shipped (2 Hz, on a
\* 60 Hz display)
ScriptConfigs ==
    TwoStimulusConfigs({"7", "7a", "7sine", "7sineopt", "coloured", "t5"}, {8},
                       ScriptFrequencies, ScriptFrequencies, {"SQUARE"})
    \cup { c \in TwoStimulusConfigs({"7sine"}, {8}, {0, 1, 2, 5}, ScriptFrequencies, {"SINE"}) :
             SineOk(c) }
    \cup TwoStimulusConfigs({"7sine"}, {8}, {1, 2}, {2}, {"sine"})
    \cup OneStimulusConfigs("rift2", {8}, {2, 4})
    \cup OneStimulusConfigs("rift_code", {8}, {2, 4})
    \cup OneStimulusConfigs("9", {8, 60}, {2})

ResolverIdle ==
    /\ arg = None /\ obj = None /\ call = NoCall /\ first_query = NoCall
    /\ asked_before = -1

InitLoop(configs, late, cap) ==
    /\ ResolverIdle
    /\ config \in configs
    /\ pattern = None /\ frames_per_half = None
    /\ pc = "setup" /\ exception = ""
    /\ frame_num = 0 /\ trial_ended = FALSE /\ key_buffer = FALSE
    /\ flips = 0 /\ clock = 0 /\ clock_alt = 0 /\ current_time = 0
    /\ current_time_alt = 0 /\ color = None /\ color_alt = None /\ last_color = None
    /\ flicker_switches = None /\ actual_flicker_frequency = None
    /\ pressed_at = -1 /\ late_budget = late /\ frame_cap = cap

Init == InitLoop(LoopConfigs, 0, MaxFrames)

\* last_color_9 = None (7.py, 7a.py); last_color = COLOR1 (rift2.py);
\* last_target_color = GREEN_COLOR, last_distractor_color = RED_COLOR;
\* last_flicker_state_9 = True (t5.py)
InitialLastColor(script, hour) ==
    IF script = "rift2" THEN COLOR1
    ELSE IF script = "t5" THEN TRUE
    ELSE IF script = "coloured" THEN (IF hour = 9 THEN GREEN_COLOR ELSE RED_COLOR)
    ELSE NoColor

\* pattern_9 / pattern_3 as the module level of a script configured as cfg
\* builds them: if ENABLE_..._FLICKER: pattern = AdaptiveFlickerPattern(...)
\* else: pattern = None
PatternsOf(cfg) ==
    [h \in Stimuli(cfg.script) |->
        IF cfg.ENABLE_FLICKER[h]
        THEN AdaptiveFlickerPattern(cfg.REFRESH_RATE, cfg.FLICKER_FREQUENCY[h],
                                    cfg.FLICKER_MODE)
        ELSE None]

\* FRAMES_PER_HALF_CYCLE_9 / _3 of 7.py, computed for both stimuli whether
\* their flicker is enabled or not
FramesPerHalfOf(cfg) ==
    [h \in Stimuli(cfg.script) |->
        FRAMES_PER_HALF_CYCLE(cfg.REFRESH_RATE, cfg.FLICKER_FREQUENCY[h])]

\* The module level computes the constants of the 9 o'clock stimulus before
\* those of the 3 o'clock stimulus
SetupBefore(g, h) == g = 9 /\ h = 3

\* pattern_9 / pattern_3 as the module level leaves them: a constructor that
\* raises ends the run, the pattern of the stimulus after it is never built
PatternsBound(cfg) ==
    [h \in Stimuli(cfg.script) |->
        IF \E g \in Stimuli(cfg.script) :
              SetupBefore(g, h) /\ cfg.ENABLE_FLICKER[g] /\ ~IsObject(PatternsOf(cfg)[g])
        THEN Unbound
        ELSE PatternsOf(cfg)[h]]

\* FRAMES_PER_HALF_CYCLE_9 / _3 as the module level of 7.py leaves them: the
\* division by a frequency of 0 ends the run, that name and the one after it
\* stay unbound
FramesPerHalfBound(cfg) ==
    [h \in Stimuli(cfg.script) |->
        IF \/ cfg.FLICKER_FREQUENCY[h] = 0
           \/ \E g \in Stimuli(cfg.script) : SetupBefore(g, h) /\ cfg.FLICKER_FREQUENCY[g] = 0
        THEN Unbound
        ELSE FRAMES_PER_HALF_CYCLE(cfg.REFRESH_RATE, cfg.FLICKER_FREQUENCY[h])]

\* The module level of a script configured as cfg ends in ZeroDivisionError.
\* 7.py: int(REFRESH_RATE / ..._FLICKER_FREQUENCY / 2) with a frequency of 0,
\* or REFRESH_RATE / FRAMES_PER_FULL_CYCLE with a frame count of 0, for
\* either stimulus, enabled or not; 7a.py, 7sine.py, 7sineopt.py: the
\* constructor of the pattern of an enabled stimulus
SetupRaises(cfg) ==
    LET script == cfg.script
        hours == Stimuli(script)
    IN  IF script = "7"
        THEN \/ \E h \in hours : cfg.FLICKER_FREQUENCY[h] = 0
             \/ \E h \in hours : FramesPerHalfOf(cfg)[h] = 0
        ELSE IF script \in PatternScripts
        THEN \E h \in hours : cfg.ENABLE_FLICKER[h] /\ ~IsObject(PatternsOf(cfg)[h])
        ELSE FALSE

\* Module level up to the loop: the patterns or frame counts are computed,
\* then frame_num = 0, trial_ended = False and the verification lists are set
Setup ==
    /\ pc = "setup"
    /\ LET script == config.script
           hours == Stimuli(script)
           raised == SetupRaises(config)
       IN  /\ frames_per_half' = IF script = "7" THEN FramesPerHalfBound(config)
                                 ELSE frames_per_half
           /\ pattern' = IF script \in PatternScripts THEN PatternsBound(config) ELSE pattern
           /\ exception' = IF raised THEN "ZeroDivisionError" ELSE ""
           /\ pc' = IF raised THEN "error" ELSE "loop_head"
           /\ color' = [h \in hours |-> NoColor]
           /\ color_alt' = [h \in hours |-> NoColor]
           /\ last_color' = [h \in hours |-> InitialLastColor(script, h)]
           /\ flicker_switches' = [h \in hours |-> <<>>]
           /\ actual_flicker_frequency' = [h \in hours |-> NoReport]
    /\ frame_num' = 0
    /\ trial_ended' = FALSE
    /\ UNCHANGED <<config, key_buffer, flips, clock, clock_alt, current_time,
                   current_time_alt, pressed_at, late_budget, frame_cap>>
    /\ UNCHANGED resolverVars

\* The participant presses the stop key (space; escape in 9.py): the press
\* waits in the event buffer until event.getKeys() collects it
PressKey ==
    /\ pc \in {"loop_head", "draw", "flip", "advance"}
    /\ pressed_at = -1
    /\ key_buffer' = TRUE
    /\ pressed_at' = flips
    /\ UNCHANGED <<config, pattern, frames_per_half, pc, exception, frame_num, trial_ended,
                   flips, clock, clock_alt, current_time, current_time_alt, color,
                   color_alt, last_color, flicker_switches, actual_flicker_frequency,
                   late_budget, frame_cap>>
    /\ UNCHANGED resolverVars

\* A faulty loop head: every script polls once in 2 * poll_interval frames
LoopHeadRarePoll ==
    /\ pc = "loop_head"
    /\ LET polls == config.script # "9" /\ frame_num % (2 * poll_interval) = 0
           stop == polls /\ key_buffer
       IN  /\ stop \/ frame_num < frame_cap
           /\ key_buffer' = IF polls THEN FALSE ELSE key_buffer
           /\ trial_ended' = IF stop THEN TRUE ELSE trial_ended
           /\ pc' = IF stop THEN "report" ELSE "draw"
    /\ current_time' = clock
    /\ current_time_alt' = clock_alt
    /\ UNCHANGED <<config, pattern, frames_per_half, exception, frame_num, flips, clock,
                   clock_alt, color, color_alt, last_color, flicker_switches,
                   actual_flicker_frequency, pressed_at, late_budget, frame_cap>>
    /\ UNCHANGED resolverVars

\* while not trial_ended: current_time = trial_clock.getTime(); keys =
\* event.getKeys(); if 'space' in keys: trial_ended = True; break
\* if TRIAL_DURATION is not None and ... >= TRIAL_DURATION: trial_ended = True; break
\* (7sineopt.py polls only if frame_num % 10 == 0; 9.py polls after the flip;
\* d.py: for i in range(n_frames): if escape_key in event.getKeys(): break,
\* and core.quit() follows the loop)
LoopHead ==
    /\ pc = "loop_head"
    /\ LET exhausted == config.script = "d" /\ frame_num >= n_frames(config.REFRESH_RATE)
           polls == /\ config.script # "9"
                    /\ ~exhausted
                    /\ (config.script = "7sineopt" => frame_num % poll_interval = 0)
           stop == polls /\ key_buffer
           timed_out == /\ config.script \notin {"9", "d", "rift_code"}
                        /\ ~stop
                        /\ TRIAL_DURATION # None
                        /\ clock >= TRIAL_DURATION * config.REFRESH_RATE
       IN  /\ stop \/ timed_out \/ exhausted \/ frame_num < frame_cap
           /\ key_buffer' = IF polls THEN FALSE ELSE key_buffer
           /\ trial_ended' = IF (stop \/ timed_out) /\ config.script # "d"
                             THEN TRUE ELSE trial_ended
           /\ pc' = IF config.script = "d" /\ (stop \/ exhausted) THEN "done"
                    ELSE IF stop \/ timed_out THEN "report" ELSE "draw"
    /\ current_time' = clock
    /\ current_time_alt' = clock_alt
    /\ UNCHANGED <<config, pattern, frames_per_half, exception, frame_num, flips, clock,
                   clock_alt, color, color_alt, last_color, flicker_switches,
                   actual_flicker_frequency, pressed_at, late_budget, frame_cap>>
    /\ UNCHANGED resolverVars

\* The drawing part of the iteration, for the timestamps of both runs
Draw ==
    /\ pc = "draw"
    /\ LET before == [color |-> color, last_color |-> last_color,
                      flicker_switches |-> flicker_switches, exception |-> ""]
           before_alt == [before EXCEPT !.color = color_alt]
           st == DrawAll(config, pattern, frames_per_half, DrawOrder(config.script),
                         frame_num, current_time, before)
           st_alt == DrawAll(config, pattern, frames_per_half, DrawOrder(config.script),
                             frame_num, current_time_alt, before_alt)
       IN  /\ color' = st.color
           /\ color_alt' = st_alt.color
           /\ last_color' = st.last_color
           /\ flicker_switches' = st.flicker_switches
           /\ exception' = st.exception
           /\ pc' = IF st.exception # "" THEN "error" ELSE "flip"
    /\ UNCHANGED <<config, pattern, frames_per_half, frame_num, trial_ended, key_buffer,
                   flips, clock, clock_alt, current_time, current_time_alt,
                   actual_flicker_frequency, pressed_at, late_budget, frame_cap>>
    /\ UNCHANGED resolverVars

\* win.flip(): returns at the next vertical blank, or one blank later when
\* the frame is late; the two runs are late independently
Flip ==
    /\ pc = "flip"
    /\ \E late \in 0..1, late_alt \in 0..1 :
          /\ late + late_alt <= late_budget
          /\ clock' = clock + 1 + late
          /\ clock_alt' = clock_alt + 1 + late_alt
          /\ late_budget' = late_budget - (late + late_alt)
    /\ flips' = flips + 1
    /\ pc' = "advance"
    /\ UNCHANGED <<config, pattern, frames_per_half, exception, frame_num, trial_ended,
                   key_buffer, current_time, current_time_alt, color, color_alt,
                   last_color, flicker_switches, actual_flicker_frequency, pressed_at,
                   frame_cap>>
    /\ UNCHANGED resolverVars

\* A faulty counter: two counts per presented frame
AdvanceTwice ==
    /\ pc = "advance"
    /\ frame_num' = frame_num + 2
    /\ LET stop == config.script = "9" /\ key_buffer
       IN  /\ key_buffer' = IF config.script = "9" THEN FALSE ELSE key_buffer
           /\ pc' = IF stop THEN "report" ELSE "loop_head"
    /\ UNCHANGED <<config, pattern, frames_per_half, exception, trial_ended, flips, clock,
                   clock_alt, current_time, current_time_alt, color, color_alt,
                   last_color, flicker_switches, actual_flicker_frequency, pressed_at,
                   late_budget, frame_cap>>
    /\ UNCHANGED resolverVars

\* frame_num += 1  (9.py: frame_count += 1; if event.getKeys(['escape']): break;
\* d.py: the next i of range(n_frames))
Advance ==
    /\ pc = "advance"
    /\ frame_num' = frame_num + 1
    /\ LET stop == config.script = "9" /\ key_buffer
       IN  /\ key_buffer' = IF config.script = "9" THEN FALSE ELSE key_buffer
           /\ pc' = IF stop THEN "report" ELSE "loop_head"
    /\ UNCHANGED <<config, pattern, frames_per_half, exception, trial_ended, flips, clock,
                   clock_alt, current_time, current_time_alt, color, color_alt,
                   last_color, flicker_switches, actual_flicker_frequency, pressed_at,
                   late_budget, frame_cap>>
    /\ UNCHANGED resolverVars

\* The timing verification printed after the loop, then win.close().
\* rift_code.py: expected_frames = TRIAL_DURATION * REFRESH_RATE raises
\* TypeError while TRIAL_DURATION is None
Report ==
    /\ pc = "report"
    /\ actual_flicker_frequency' =
          [h \in Stimuli(config.script) |->
              ReportedFrequency(config.script, config.REFRESH_RATE,
                                config.ENABLE_FLICKER[h], flicker_switches[h])]
    /\ LET raised == config.script = "rift_code" /\ TRIAL_DURATION = None
       IN  /\ exception' = IF raised THEN "TypeError" ELSE exception
           /\ pc' = IF raised THEN "error" ELSE "done"
    /\ UNCHANGED <<config, pattern, frames_per_half, frame_num, trial_ended,
                   key_buffer, flips, clock, clock_alt, current_time, current_time_alt,
                   color, color_alt, last_color, flicker_switches, pressed_at,
                   late_budget, frame_cap>>
    /\ UNCHANGED resolverVars

Next ==
    \/ Setup
    \/ PressKey
    \/ LoopHead
    \/ Draw
    \/ Flip
    \/ Advance
    \/ Report

Spec == Init /\ [][Next]_vars

\* The same scripts with up to MaxLate late frames spread over two runs
InitTiming == InitLoop(TimingConfigs, MaxLate, MaxTimingFrames)
SpecTiming == InitTiming /\ [][Next]_vars

\* 7a.py followed for MaxLongFrames frames
InitScripts == InitLoop(ScriptConfigs, 0, MaxScriptFrames)
SpecScripts == InitScripts /\ [][Next]_vars

InitLong == InitLoop(LongConfigs, 0, MaxLongFrames)
SpecLong == InitLong /\ [][Next]_vars

\* ========================================================================
\* Properties
\* ========================================================================
SquareResolvers == {"get_color_square", "get_color_simple",
                    "calculate_color_flicker_frame_based"}

\* refresh_rate / flicker_frequency / 2 is a positive integer
IsExact(a) == a.flicker_frequency > 0
              /\ a.refresh_rate % (2 * a.flicker_frequency) = 0
ExactHalfCycle(a) == a.refresh_rate \div (2 * a.flicker_frequency)

\* C1: with k = R/F/2 a positive integer, each square-wave resolver returns
\* color_a on the frames n with n mod 2k < k and color_b on all other frames.
C1_ExactPattern ==
    (call.fn \in SquareResolvers /\ IsExact(arg))
    => call.result = IF call.frame_num % (2 * ExactHalfCycle(arg)) < ExactHalfCycle(arg)
                     THEN COLOR_A ELSE COLOR_B

\* R=480, F=60: frame 4 is the first frame of the color_b half
C1_Witness ==
    /\ arg.refresh_rate = 480 /\ arg.flicker_frequency = 60
    /\ call.fn = "get_color_square"
    /\ call.frame_num = 4 /\ call.result = COLOR_B

\* Entries of a sequence equal to v
CountOf(s, v) == Cardinality({i \in 1..Len(s) : s[i] = v})

\* C2: for 0 < F <= R/2 with the fractional part of R/F/2 equal to p/q in
\* lowest terms, q <= 1000: the pattern has length q, every entry is
\* floor(R/F/2) or ceil(R/F/2), q-p entries are the floor and (where the two
\* differ) p entries are the ceiling, sum(pattern)/q is R/F/2 exactly and the
\* achieved frequency R / (2 * sum(pattern)/q) is F, as rationals; 480/64
\* gives 4 entries summing to 15.
C2_DriftFreeAverage ==
    LET R == arg.refresh_rate
        F == arg.flicker_frequency
    IN  (IsObject(obj) /\ F > 0 /\ 2 * F <= R /\ Fraction(R, 2 * F)[2] <= max_denominator)
        => LET ideal == Fraction(R, 2 * F)
               q == ideal[2]
               p == ideal[1] % ideal[2]
           IN  /\ Len(obj.pattern) = q
               /\ obj.pattern_length = q
               /\ \A i \in 1..q : obj.pattern[i] \in {Floor(R, 2 * F), Ceil(R, 2 * F)}
               /\ CountOf(obj.pattern, Floor(R, 2 * F)) = q - p
               /\ p > 0 => CountOf(obj.pattern, Ceil(R, 2 * F)) = p
               /\ Fraction(SumSeq(obj.pattern), q) = ideal
               /\ Fraction(R * q, 2 * SumSeq(obj.pattern)) = <<F, 1>>
               /\ (R = 480 /\ F = 64) => (q = 4 /\ SumSeq(obj.pattern) = 15)

\* 480/64 builds the adaptive pattern [4, 3, 4, 4]
C2_Witness ==
    /\ arg.refresh_rate = 480 /\ arg.flicker_frequency = 64
    /\ IsObject(obj) /\ obj.pattern = <<4, 3, 4, 4>>

\* C5: F = R/2 builds the exact pattern [1] with frames_low = frames_high = 1,
\* and the square-wave resolvers return color_a on every even frame number
\* and color_b on every odd one.
C5_NyquistBoundary ==
    (2 * arg.flicker_frequency = arg.refresh_rate)
    => /\ IsObject(obj) => /\ obj.pattern = <<1>>
                           /\ obj.frames_low = 1 /\ obj.frames_high = 1
                           /\ obj.is_integer
       /\ call.fn \in (SquareResolvers \cup {"calculate_color_flicker_frame"})
          => call.result = IF call.frame_num % 2 = 0 THEN COLOR_A ELSE COLOR_B

\* R=120, F=60: calculate_color_flicker_frame shows color_b on frame 1
C5_Witness ==
    /\ arg.refresh_rate = 120 /\ arg.flicker_frequency = 60
    /\ IsObject(obj) /\ obj.pattern = <<1>>
    /\ call.fn = "calculate_color_flicker_frame"
    /\ call.frame_num = 1 /\ call.result = COLOR_B

Running == pc \in {"loop_head", "draw", "flip", "advance", "report", "done"}

\* The j-th entry of a switch log lies less than one frame from j * R/F/2
\* (every entry is the last one in the state where it is logged)
LastSwitchOnTime(h) ==
    LET j == Len(flicker_switches[h])
        R == config.REFRESH_RATE
        F == config.FLICKER_FREQUENCY[h]
    IN  j > 0 => Abs(flicker_switches[h][j] * 2 * F - j * R) < 2 * F

\* 7a.py draws stimulus h from an adaptive pattern built for 0 < F <= R/2
AdaptiveRun(h) ==
    /\ config.script = "7a" /\ Running
    /\ config.ENABLE_FLICKER[h]
    /\ config.FLICKER_FREQUENCY[h] > 0
    /\ 2 * config.FLICKER_FREQUENCY[h] <= config.REFRESH_RATE
    /\ ~pattern[h].is_integer

\* C3 as stated: with an adaptive pattern built for 0 < F <= R/2, evaluated on
\* frames 0, 1, 2, ..., the j-th colour switch happens less than one frame
\* from j * (R/F/2), for every j and across wrap-arounds of the pattern.
C3_ZeroDrift ==
    \A h \in Stimuli(config.script) : AdaptiveRun(h) => LastSwitchOnTime(h)

\* C3 amended: the same, where the fractional part of R/F/2 has a reduced
\* denominator of at most 1000 (the limit of limit_denominator).
C3_ZeroDriftWithinLimit ==
    \A h \in Stimuli(config.script) :
        (AdaptiveRun(h) /\ pattern[h].ideal_frames_per_half[2] <= max_denominator)
        => LastSwitchOnTime(h)

\* 101/50: the 250th switch, after the super-cycle of 202 frames has wrapped
C3_Witness ==
    /\ config.script = "7a" /\ config.REFRESH_RATE = 101
    /\ pc = "flip" /\ frame_num > 202
    /\ Len(flicker_switches[3]) = 250
    /\ flicker_switches[3][250] = frame_num

\* A frequency that must be rejected
InvalidFrequency(cfg, h) ==
    /\ cfg.ENABLE_FLICKER[h]
    /\ cfg.FLICKER_FREQUENCY[h] <= 0 \/ 2 * cfg.FLICKER_FREQUENCY[h] > cfg.REFRESH_RATE

\* C4: a target frequency <= 0 or > R/2 fails with InvalidFrequency at setup:
\* the render loop is never entered with it, the only error is
\* InvalidFrequency, and no pattern with a zero-length half-cycle is built.
C4_InvalidFrequency ==
    \A h \in Stimuli(config.script) :
        (config.script # "9" /\ InvalidFrequency(config, h))
        => /\ pc \in {"setup", "error"}
           /\ pc = "error" => exception = "InvalidFrequency"
           /\ (pc = "error" /\ config.script \in PatternScripts /\ IsObject(pattern[h]))
              => \A i \in 1..Len(pattern[h].pattern) : pattern[h].pattern[i] > 0

\* C6: the frequency the verification reports from the recorded switch
\* timestamps is 1 / (2 * mean interval between consecutive switches).
C6_DiagnosticFrequency ==
    \A h \in Stimuli(config.script) :
        (pc = "done" /\ actual_flicker_frequency[h] # NoReport)
        => LET intervals == np_diff(flicker_switches[h])
           IN  actual_flicker_frequency[h] =
                   Fraction(config.REFRESH_RATE * Len(intervals), 2 * SumSeq(intervals))

\* C7: the state shown on the n-th presented frame depends on n and the
\* configuration only: two runs of one configuration with different frame
\* timestamps present the same state on every frame.
C7_FrameBasedScheduling ==
    pc = "flip" => color = color_alt

\* C9: frame_num starts at 0, never decreases, equals the number of flips at
\* every loop head, is incremented by exactly 1 after each flip and nowhere
\* else, and the iteration that exits on the stop key neither flips nor counts.
C9_FrameCounter ==
    /\ []((config.script \in FrameScripts /\ Running)
          => frame_num >= 0 /\ (pc = "loop_head" => frame_num = flips))
    /\ [][config.script \in FrameScripts
          => /\ pc = "setup" => frame_num' = 0
             /\ pc # "setup" =>
                  \/ frame_num' = frame_num
                  \/ /\ frame_num' = frame_num + 1
                     /\ pc = "advance" /\ flips = frame_num + 1 /\ flips' = flips
             /\ (pc = "advance" /\ pc' # "advance") => frame_num' = frame_num + 1
             /\ (pc = "loop_head" /\ pc' = "report")
                  => (flips' = flips /\ frame_num' = frame_num)]_vars

\* 7.py stopped at the head of its sixth iteration, after five frames
C9_Witness ==
    /\ config.script = "7" /\ pc = "report" /\ trial_ended
    /\ pressed_at = 4 /\ frame_num = 5 /\ flips = 5

\* C10: with a poll every frame the loop exits at the first loop head after
\* the press, at most one frame later; 7sineopt.py presents at most 10 more
\* frames; the buffered press stays until a poll ends the trial.
C10_Cancellation ==
    /\ []((config.script \in EveryFramePollers /\ pressed_at >= 0)
          => flips - pressed_at <= 1)
    /\ []((config.script = "7sineopt" /\ pressed_at >= 0)
          => flips - pressed_at <= poll_interval)
    /\ []((config.script \in FrameScripts /\ pressed_at >= 0 /\ ~trial_ended)
          => key_buffer)
    /\ [][(config.script \in EveryFramePollers /\ pc = "loop_head" /\ key_buffer)
          => (pc' = "report" /\ trial_ended')]_vars
    /\ [][(config.script \in FrameScripts /\ key_buffer /\ ~key_buffer')
          => (pc' = "report" /\ trial_ended')]_vars

\* 7sineopt.py: the key pressed right after the poll of frame 0 ends the
\* trial at the poll of frame 10, ten frames later
C10_Witness ==
    /\ config.script = "7sineopt" /\ pc = "done" /\ trial_ended
    /\ pressed_at = 0 /\ flips = 10

\* ------------------------------------------------------------------------
\* Colour processing
\* ------------------------------------------------------------------------
ProcessingScripts == {"7", "7a", "7sine", "7sineopt"}

\* C11: the processed endpoints (scaled by LUMINANCE_MULTIPLIER, then
\* desaturated toward BACKGROUND_COLOR[0] with SATURATION_LEVEL) have the
\* per-channel average of the unprocessed endpoints:
\* COLOR_A_FINAL + COLOR_B_FINAL = COLOR_A + COLOR_B in every channel.
C11_MidpointPreserved ==
    (pc # "setup" /\ config.script \in ProcessingScripts)
    => \A i \in 1..3 :
          COLOR_A_FINAL(config.script)[i] + COLOR_B_FINAL(config.script)[i]
              = ScriptConstants(config.script).COLOR_A[i]
                + ScriptConstants(config.script).COLOR_B[i]

\* ------------------------------------------------------------------------
\* Sine-wave modulation
\* ------------------------------------------------------------------------
\* get_color was called on a SINE pattern with a whole number of frames per cycle
SineCall ==
    /\ IsObject(obj) /\ obj.mode = "SINE"
    /\ call.fn = "get_color"
    /\ obj.frames_per_cycle[2] = 1

\* Channel i of the colours of frames from..to, summed (the colour of the
\* frame of the call is call.result)
SineWindowSum(from, to, i) ==
    SumSeq([k \in 1..(to - from + 1) |-> get_color_sine(obj, from + k - 1, COLOR_A, COLOR_B)[i]])

\* C12: in SINE mode with N = R/F a whole number of frames per cycle, the
\* colours of any N consecutive frames average per channel to the midpoint
\* (color_a + color_b)/2, and for even N the colours of frames n and n + N/2
\* sum per channel to color_a + color_b (colour channels compared in units
\* of 1/ColorUnit).
C12_SineSymmetry ==
    SineCall =>
        LET N == obj.frames_per_cycle[1]
            n == call.frame_num
        IN  \A i \in 1..3 :
              /\ 2 * (call.result[i] + SineWindowSum(n + 1, n + N - 1, i))
                     = N * (COLOR_A[i] + COLOR_B[i])
              /\ N % 2 = 0 =>
                     call.result[i] + get_color_sine(obj, n + N \div 2, COLOR_A, COLOR_B)[i]
                         = COLOR_A[i] + COLOR_B[i]

\* R=8, F=1 (8 frames per cycle): frame 2 is the crest and shows color_a
C12_Witness ==
    /\ SineCall
    /\ arg.refresh_rate = 8 /\ arg.flicker_frequency = 1
    /\ call.frame_num = 2 /\ call.result = COLOR_A

\* ------------------------------------------------------------------------
\* The pattern object
\* ------------------------------------------------------------------------
\* C13: for F > 0, is_integer holds exactly when R/F/2 is an integer; then
\* the pattern is the single entry [R/F/2] with pattern_length 1; otherwise
\* frames_high = frames_low + 1 and the pattern is the one _generate_pattern
\* builds from the ideal half-cycle, its floor and its ceiling.
C13_ExactnessFlag ==
    (IsObject(obj) /\ arg.flicker_frequency > 0)
    => LET R == arg.refresh_rate
           F == arg.flicker_frequency
       IN  /\ obj.is_integer <=> (R % (2 * F) = 0)
           /\ obj.is_integer => /\ obj.pattern = <<R \div (2 * F)>>
                                /\ obj.pattern_length = 1
           /\ ~obj.is_integer =>
                /\ obj.frames_high = obj.frames_low + 1
                /\ obj.frames_low = Floor(R, 2 * F)
                /\ obj.pattern = _generate_pattern(Fraction(R, 2 * F), obj.frames_low,
                                                   obj.frames_high)
                /\ obj.pattern_length = Len(obj.pattern)

\* 480/72: R/F/2 = 10/3 is not an integer and the pattern has three entries
C13_Witness ==
    /\ arg.refresh_rate = 480 /\ arg.flicker_frequency = 72
    /\ IsObject(obj) /\ ~obj.is_integer
    /\ obj.frames_low = 3 /\ obj.frames_high = 4
    /\ obj.pattern = <<4, 3, 3>>

\* Entry i (0-based) of the pattern of obj is a long (ceiling) half-cycle
IsLong(i) == obj.pattern[i + 1] = obj.frames_high

\* Long entries among the w cyclically consecutive entries from entry s on
LongInWindow(s, w) ==
    Cardinality({k \in 0..(w - 1) : IsLong((s + k) % obj.pattern_length)})

\* C14: in an adaptive pattern of length q with p long entries, entry i is
\* long exactly when (i*p) mod q < p, and every window of w cyclically
\* consecutive entries (1 <= w <= q) holds floor(w*p/q) or ceil(w*p/q) long
\* entries.
C14_EvenDistribution ==
    (IsObject(obj) /\ ~obj.is_integer)
    => LET q == obj.pattern_length
           p == Cardinality({i \in 0..(q - 1) : IsLong(i)})
       IN  /\ \A i \in 0..(q - 1) : IsLong(i) <=> ((i * p) % q < p)
           /\ \A w \in 1..q, s \in 0..(q - 1) :
                 LongInWindow(s, w) \in {Floor(w * p, q), Ceil(w * p, q)}

\* 10/3: R/F/2 = 5/3 builds [2, 1, 2], two long entries in three
C14_Witness ==
    /\ arg.refresh_rate = 10 /\ arg.flicker_frequency = 3
    /\ IsObject(obj) /\ ~obj.is_integer
    /\ obj.pattern = <<2, 1, 2>>

\* ------------------------------------------------------------------------
\* Frame counts of 7.py
\* ------------------------------------------------------------------------
\* 7.py is configured with a frequency in (0, R/2] whose R/F/2 is no integer
IncompatibleFrequency(cfg, h) ==
    /\ cfg.script = "7" /\ cfg.ENABLE_FLICKER[h]
    /\ cfg.FLICKER_FREQUENCY[h] > 0
    /\ 2 * cfg.FLICKER_FREQUENCY[h] <= cfg.REFRESH_RATE
    /\ cfg.REFRESH_RATE % (2 * cfg.FLICKER_FREQUENCY[h]) # 0

\* C15: 7.py given R and F with R/F/2 not an integer stops at setup with the
\* configuration error IncompatibleFrequency; it never enters the render
\* loop with a truncated FRAMES_PER_HALF_CYCLE.
C15_IncompatibleFrequency ==
    \A h \in Stimuli(config.script) :
        IncompatibleFrequency(config, h)
        => /\ pc \in {"setup", "error"}
           /\ pc = "error" => exception = "IncompatibleFrequency"

\* ------------------------------------------------------------------------
\* End of the trial
\* ------------------------------------------------------------------------
\* C16: with no maximum duration configured the render loop of every script
\* is left only after a stop key press has been polled: a script that is past
\* its loop has had the stop key pressed and collected from the event buffer.
C16_IndefiniteTrial ==
    pc \in {"report", "done"} => (pressed_at >= 0 /\ ~key_buffer)

\* ------------------------------------------------------------------------
\* Runs of the adaptive square wave
\* ------------------------------------------------------------------------
\* The run that holds frame n when run j = 0, 1, 2, ... has
\* pattern[j mod pattern_length] frames and run 0 starts at frame 0
\* (run j starts at frame `start`)
RECURSIVE RunOfFrame(_, _, _, _)
RunOfFrame(s, n, j, start) ==
    LET frames == s[(j % Len(s)) + 1]
    IN  IF n < start + frames THEN [index |-> j, first |-> start, frames |-> frames]
        ELSE RunOfFrame(s, n, j + 1, start + frames)

\* C17: for a pattern whose entries are all >= 1, the colours get_color_square
\* and get_color_simple return over frames 0, 1, 2, ... form runs that
\* alternate color_a, color_b, ... starting with color_a at frame 0, the j-th
\* run having pattern[j mod pattern_length] frames, also beyond the first
\* super-cycle of 2 * sum(pattern) frames: frame n shows color_a exactly when
\* the run that holds it has an even index.
C17_RunStructure ==
    (/\ IsObject(obj)
     /\ \A i \in 1..Len(obj.pattern) : obj.pattern[i] >= 1
     /\ call.fn \in {"get_color_square", "get_color_simple"})
    => call.result = IF RunOfFrame(obj.pattern, call.frame_num, 0, 0).index % 2 = 0
                     THEN COLOR_A ELSE COLOR_B

\* 480/72 builds [4, 3, 3]: frame 20 opens the second super-cycle as the
\* first frame of run 6, the seventh run, which shows color_a for 4 frames
C17_Witness ==
    /\ IsObject(obj) /\ obj.pattern = <<4, 3, 3>>
    /\ call.fn = "get_color_square" /\ call.frame_num = 20
    /\ RunOfFrame(obj.pattern, 20, 0, 0) = [index |-> 6, first |-> 20, frames |-> 4]
    /\ call.result = COLOR_A

\* ------------------------------------------------------------------------
\* Temporal average of the square wave
\* ------------------------------------------------------------------------
\* Frames among the `frames` consecutive ones from frame `from` on which
\* get_color_square shows colour c
FramesShowing(c, from, frames) ==
    Cardinality({n \in from..(from + frames - 1) :
                    get_color_square(obj, n, COLOR_A, COLOR_B) = c})

\* C18: in SQUARE mode, over every full pattern cycle of 2 * sum(pattern)
\* consecutive frames, color_a and color_b are each shown on exactly
\* sum(pattern) frames (for a frequency in (0, R/2]; the cycle here starts at
\* the frame of the call).
C18_SquareAverage ==
    (/\ IsObject(obj) /\ obj.mode = "SQUARE" /\ call.fn = "get_color_square"
     /\ 2 * arg.flicker_frequency <= arg.refresh_rate)
    => LET half == SumSeq(obj.pattern)
       IN  /\ FramesShowing(COLOR_A, call.frame_num, 2 * half) = half
           /\ FramesShowing(COLOR_B, call.frame_num, 2 * half) = half

\* ------------------------------------------------------------------------
\* The two lookups of 7a.py
\* ------------------------------------------------------------------------
\* C19: for every pattern object and frame number, get_color_fast returns the
\* colour get_color_simple returns for that frame.
C19_LookupsAgree ==
    call.fn = "get_color_fast"
    => call.result = get_color_simple(obj, call.frame_num, COLOR_A, COLOR_B)

\* ------------------------------------------------------------------------
\* Pre-computed colours of 7sineopt.py
\* ------------------------------------------------------------------------
\* C20: for every frame number n, also past the end of the pre-computed
\* list, the colour looked up at n % len(precomputed_colors) is the colour
\* pattern.get_color(n, COLOR_A_FINAL, COLOR_B_FINAL) (for a frequency in
\* (0, R/2]).
C20_PrecomputedColors ==
    (call.fn = "precomputed_colors" /\ 2 * arg.flicker_frequency <= arg.refresh_rate)
    => call.result = get_color(obj, call.frame_num,
                               COLOR_A_FINAL("7sineopt"), COLOR_B_FINAL("7sineopt"))

\* ------------------------------------------------------------------------
\* The guarantee documented in 7.py
\* ------------------------------------------------------------------------
\* C21: whenever refresh_rate % flicker_frequency = 0, the precomputed
\* FRAMES_PER_HALF_CYCLE equals (refresh_rate / flicker_frequency) / 2: the
\* full cycle used by calculate_color_flicker_frame_based is refresh_rate /
\* flicker_frequency frames long (it is not zero) and the achieved
\* frequency refresh_rate / FRAMES_PER_FULL_CYCLE is the target frequency.
C21_MathematicalGuarantee ==
    (/\ call.fn = "calculate_color_flicker_frame_based"
     /\ arg.refresh_rate % arg.flicker_frequency = 0)
    => LET FRAMES_PER_FULL_CYCLE ==
               FRAMES_PER_HALF_CYCLE(arg.refresh_rate, arg.flicker_frequency) * 2
       IN  /\ call.result # ZeroDivisionError
           /\ FRAMES_PER_FULL_CYCLE * arg.flicker_frequency = arg.refresh_rate

\* ------------------------------------------------------------------------
\* Flicker frequency equal to the refresh rate
\* ------------------------------------------------------------------------
\* C22: with flicker_freq = refresh_rate, calculate_color_flicker_frame
\* alternates between color_a and color_b on every frame (color_a first) and
\* calculate_flicker_frame alternates one frame on, one frame off: the state
\* of frame n differs from the state of frame n + 1.
C22_FrequencyEqualsRefresh ==
    (arg.flicker_frequency = arg.refresh_rate)
    => /\ call.fn = "calculate_color_flicker_frame"
          => /\ call.result = IF call.frame_num % 2 = 0 THEN COLOR_A ELSE COLOR_B
             /\ call.result # calculate_color_flicker_frame(call.frame_num + 1,
                                  arg.flicker_frequency, arg.refresh_rate,
                                  COLOR_A, COLOR_B)
       /\ call.fn = "calculate_flicker_frame"
          => call.result # calculate_flicker_frame(call.frame_num + 1,
                                  arg.flicker_frequency, arg.refresh_rate)

\* ------------------------------------------------------------------------
\* Well-formed patterns
\* ------------------------------------------------------------------------
\* C23: for 0 < F <= R/2 the constructor succeeds and the pattern is
\* non-empty, at most max_denominator (1000) entries long, made of frames_low
\* and frames_high only, with every entry at least 1; the cycle
\* 2 * sum(pattern) is positive, so get_color_square divides by no zero.
C23_PatternWellFormed ==
    (/\ obj # None
     /\ arg.flicker_frequency > 0
     /\ 2 * arg.flicker_frequency <= arg.refresh_rate)
    => /\ IsObject(obj)
       /\ Len(obj.pattern) >= 1
       /\ Len(obj.pattern) <= max_denominator
       /\ Len(obj.pattern) = obj.pattern_length
       /\ \A i \in 1..Len(obj.pattern) :
              /\ obj.pattern[i] \in {obj.frames_low, obj.frames_high}
              /\ obj.pattern[i] >= 1
       /\ 2 * SumSeq(obj.pattern) > 0
       /\ call.fn = "get_color_square" => call.result \in {COLOR_A, COLOR_B}

C23_Witness ==
    /\ arg.refresh_rate = 2003 /\ arg.flicker_frequency = 1001
    /\ IsObject(obj) /\ Len(obj.pattern) = 1
    /\ call.fn = "get_color_square" /\ call.frame_num = 31
    /\ call.result = COLOR_B

\* ------------------------------------------------------------------------
\* The duplicated square-wave resolvers
\* ------------------------------------------------------------------------
SquareVariants == {"calculate_color_flicker_frame", "calculate_flicker_frame",
                   "calculate_color_flicker_frame_based", "get_color_simple"}

\* The call made selected the first state (color_a, or True: shown)
FirstStateSelected ==
    IF call.fn = "calculate_flicker_frame" THEN call.result = TRUE
    ELSE call.result = COLOR_A

\* C24: where k = R/F/2 is a positive integer, the float-modulo function of
\* 4.py, the integer-division function of t4.py, the integer function of
\* 7.py (called with k) and get_color_simple of 7a.py select the first state
\* on exactly the same frames: the frames n with n % 2k < k.
C24_VariantsAgree ==
    (/\ call.fn \in SquareVariants
     /\ arg.flicker_frequency > 0
     /\ arg.refresh_rate % (2 * arg.flicker_frequency) = 0)
    => LET n == call.frame_num
           k == arg.refresh_rate \div (2 * arg.flicker_frequency)
           self == AdaptiveFlickerPattern(arg.refresh_rate, arg.flicker_frequency, arg.mode)
       IN  /\ FirstStateSelected <=> (n % (2 * k) < k)
           /\ FirstStateSelected
              <=> (calculate_color_flicker_frame(n, arg.flicker_frequency,
                       arg.refresh_rate, COLOR_A, COLOR_B) = COLOR_A)
           /\ FirstStateSelected
              <=> calculate_flicker_frame(n, arg.flicker_frequency, arg.refresh_rate)
           /\ FirstStateSelected
              <=> (calculate_color_flicker_frame_based(n,
                       FRAMES_PER_HALF_CYCLE(arg.refresh_rate, arg.flicker_frequency),
                       COLOR_A, COLOR_B) = COLOR_A)
           /\ FirstStateSelected
              <=> (get_color_simple(self, n, COLOR_A, COLOR_B) = COLOR_A)

C24_Witness ==
    /\ arg.refresh_rate = 480 /\ arg.flicker_frequency = 60
    /\ IsObject(obj)
    /\ call.fn = "calculate_flicker_frame"
    /\ call.frame_num = 12 /\ call.result = FALSE

\* ------------------------------------------------------------------------
\* The switch lists of the timing verification
\* ------------------------------------------------------------------------
\* Scripts that report a flicker frequency from a list of switch timestamps
SwitchListScripts == {"7", "7a", "rift2", "coloured", "t5"}

\* C25: in a run without late frames of an exact pattern with half-cycle k,
\* once frame number n is drawn the switch list of every flicker-enabled
\* stimulus holds one timestamp for each frame k, 2k, ... up to n (the
\* frames whose state differs from the frame before) and nothing else:
\* floor(n / k) timestamps after n + 1 frames.
C25_SwitchLogging ==
    (pc = "flip" /\ config.script \in SwitchListScripts)
    => \A h \in Stimuli(config.script) :
          (/\ config.ENABLE_FLICKER[h]
           /\ config.FLICKER_FREQUENCY[h] > 0
           /\ config.REFRESH_RATE % (2 * config.FLICKER_FREQUENCY[h]) = 0)
          => LET k == config.REFRESH_RATE \div (2 * config.FLICKER_FREQUENCY[h])
             IN  /\ Len(flicker_switches[h]) = frame_num \div k
                 /\ \A j \in 1..Len(flicker_switches[h]) :
                        flicker_switches[h][j] = j * k

\* ------------------------------------------------------------------------
\* Independent stimuli
\* ------------------------------------------------------------------------
\* The colour the stimulus at h has on frame n in a run configured as cfg
ColourShown(cfg, h, n) ==
    DrawStimulus(cfg, PatternsOf(cfg), FramesPerHalfOf(cfg), h, n, 0,
                 NoColor, NoColor, <<>>).color

\* In place of a colour: the run presents no frame
NoFrame == <<"no frame">>

\* What a run configured as cfg presents at h on frame n: nothing if its
\* module level ends in an exception
Presented(cfg, h, n) ==
    IF SetupRaises(cfg) THEN NoFrame ELSE ColourShown(cfg, h, n)

\* A frequency within the contract of the scheduler: 0 < F <= R/2
InContract(refresh_rate, flicker_frequency) ==
    flicker_frequency > 0 /\ 2 * flicker_frequency <= refresh_rate

\* The configurations that differ from cfg at most in the frequency and the
\* enable flag of the stimuli other than h, each of those either not
\* flicker-enabled (at any frequency) or enabled at a frequency within the
\* contract
SiblingConfigs(cfg, h) ==
    { c \in ScriptConfigs :
        /\ c.script = cfg.script
        /\ c.REFRESH_RATE = cfg.REFRESH_RATE
        /\ c.FLICKER_MODE = cfg.FLICKER_MODE
        /\ c.FLICKER_FREQUENCY[h] = cfg.FLICKER_FREQUENCY[h]
        /\ c.ENABLE_FLICKER[h] = cfg.ENABLE_FLICKER[h]
        /\ \A g \in Stimuli(c.script) \ {h} :
               ~c.ENABLE_FLICKER[g] \/ InContract(c.REFRESH_RATE, c.FLICKER_FREQUENCY[g]) }

\* C26: on every frame presented by a script with two flickering stimuli,
\* the colour of each is the colour the run presents on that frame under any
\* other frequency and enable flag of the other stimulus (the other stimulus
\* switched off, or flickering at a frequency within the contract), and a
\* stimulus that is not flicker-enabled still has the colour it was created
\* with.
C26_IndependentStimuli ==
    (pc = "flip" /\ Stimuli(config.script) = {3, 9})
    => \A h \in {3, 9} :
          /\ \A c \in SiblingConfigs(config, h) :
                 color[h] = Presented(c, h, frame_num)
          /\ ~config.ENABLE_FLICKER[h] => color[h] = NoColor

\* ------------------------------------------------------------------------
\* Key points of the sine blend
\* ------------------------------------------------------------------------

\* C27: in SINE mode every channel of the colour returned lies between the
\* channels of color_b and color_a; with N frames per cycle, N a multiple of
\* 4, frame n gets the midpoint of the two colours when n % N is 0 or N/2,
\* color_a when n % N = N/4 and color_b when n % N = 3N/4.
C27_SineKeyPoints ==
    SineCall
    => LET N == obj.frames_per_cycle[1]
           m == call.frame_num % N
       IN  /\ \A i \in 1..3 :
                  /\ call.result[i] >= Min(COLOR_A[i], COLOR_B[i])
                  /\ call.result[i] <= Max(COLOR_A[i], COLOR_B[i])
           /\ N % 4 = 0
              => /\ m \in {0, N \div 2}
                    => \A i \in 1..3 : 2 * call.result[i] = COLOR_A[i] + COLOR_B[i]
                 /\ m = N \div 4 => call.result = COLOR_A
                 /\ m = 3 * (N \div 4) => call.result = COLOR_B

C27_Witness ==
    /\ SineCall
    /\ arg.refresh_rate = 8 /\ arg.flicker_frequency = 1
    /\ first_query.frame_num = 4 /\ first_query.result = <<0, 0, 0>>
    /\ call.frame_num = 6 /\ call.result = COLOR_B

\* ------------------------------------------------------------------------
\* Shutdown
\* ------------------------------------------------------------------------
\* C28: once the stop key press has been polled, the run is in its
\* end-of-run report or past win.close(): no script ends in an error after
\* a key-press stop with its default TRIAL_DURATION = None.
C28_CleanShutdown ==
    (pressed_at >= 0 /\ ~key_buffer)
    => /\ pc \in {"report", "done"}
       /\ exception = ""

====
